---- MODULE Spec2Model ----
(***************************************************************************)
(* The gonfig configuration registry (src/registry.go): the process-wide   *)
(* singleton, its sections and loaders maps, the RWMutex that guards them, *)
(* and the goroutines that call its operations.                            *)
(*                                                                         *)
(* A Go map is an object with identity: configs[name] holds a reference,   *)
(* Get hands that reference out and Set writes through it.  The model      *)
(* keeps the maps in a heap of cells.  A cell no reference reaches is       *)
(* reclaimed, as by Go's garbage collector, and since a map's identity    *)
(* shows only in what aliases it, the live cells are kept in the order a   *)
(* walk from the references finds them.                                    *)
(***************************************************************************)
EXTENDS Integers, Sequences, FiniteSets, TLC

\* Number of map objects alive at once.
MaxHeap ==
    4

Threads == {"T1", "T2"}
NoThread == "none"

\* Section names and map keys the callers use.
NameSeq == <<"s", "t">>
KeySeq == <<"a", "b">>
ThreadSeq == <<"T1", "T2">>
Names == {NameSeq[i] : i \in 1 .. Len(NameSeq)}
Keys == {KeySeq[i] : i \in 1 .. Len(KeySeq)}

\* configs[name] values that are not heap addresses.
NoEntry == 0 - 1
NilMap == 0

Addrs == 1 .. MaxHeap

-----------------------------------------------------------------------------
(* Values: interface{} as a tagged pair.  "none" is an absent map key.      *)

NoneV == [t |-> "none", v |-> 0]
NilV == [t |-> "nil", v |-> 0]
FreeV == [t |-> "free", v |-> 0]
IntV(n) == [t |-> "int", v |-> n]
MapV(a) == [t |-> "map", v |-> a]
RegV(id) == [t |-> "registry", v |-> id]

EmptyMap == [k \in Keys |-> NoneV]
FreeCell == [k \in Keys |-> FreeV]

IsFree(cell) == \A k \in Keys : cell[k].t = "free"

\* What an operation returns: the error tag, the value, the key prefix the
\* error message names, and (for Unmarshal) what was written into the target.
Res(err, val, pfx) == [err |-> err, val |-> val, pfx |-> pfx, out |-> {}]
Ok(val) == Res("none", val, <<>>)
NoRes == Res("none", NoneV, <<>>)

-----------------------------------------------------------------------------
(* Loaders: the callbacks handed to Register.  Each invocation ends in one  *)
(* of the loader's outcomes: a tree, a nil map, or a panic.                 *)

Loaders == {"flat", "nilmap", "boom", "flaky"}
NoLoader == "none"

\* Loaders that call a method of the registry they are handed, then return
\* a tree: Get, a typed getter, Set, Register, an env accessor.
CallbackLoaders == {"asks", "converts", "sets", "registers", "envs"}

\* The method a loader calls on the registry; "" when it calls none.
Calls(l) ==
    CASE l = "asks" -> "Get"
      [] l = "converts" -> "GetInt"
      [] l = "sets" -> "Set"
      [] l = "registers" -> "Register"
      [] l = "envs" -> "GetEnvString"
      [] OTHER -> ""

Outcomes(l) ==
    CASE l = "flat" -> {"treeA"}
      [] l = "nilmap" -> {"nil"}
      [] l = "boom" -> {"panic"}
      [] l = "flaky" -> {"treeB", "panic"}
      [] l \in CallbackLoaders -> {"treeA"}

\* A pure constant function: every invocation returns the same tree.
IsConstant(l) == Outcomes(l) \in {{"treeA"}, {"nil"}}

\* The map objects of a returned tree, the root first; references inside a
\* tree are relative to the place of its root.
Template(o) ==
    CASE o = "treeA" -> << [k \in Keys |-> IF k = "a" THEN IntV(1) ELSE NoneV] >>
      [] o = "treeB" -> << [k \in Keys |-> IF k = "a" THEN MapV(2) ELSE NoneV],
                           [k \in Keys |-> IF k = "b" THEN IntV(3) ELSE NoneV] >>
      [] OTHER -> << >>

-----------------------------------------------------------------------------
(* The heap of map objects.                                                 *)

FreeAddrs(h) == {a \in Addrs : IsFree(h[a])}

FreeCount(h) == Cardinality(FreeAddrs(h))

RECURSIVE LowestN(_, _)
LowestN(S, n) ==
    IF n = 0 \/ S = {}
    THEN << >>
    ELSE LET m == CHOOSE x \in S : \A y \in S : x <= y
         IN  <<m>> \o LowestN(S \ {m}, n - 1)

\* make(map[string]interface{}) and map literals: the cells a tree of n map
\* objects is placed in.
NewCells(h, n) == LowestN(FreeAddrs(h), n)

Rebase(cell, at) ==
    [k \in Keys |-> IF cell[k].t = "map" THEN MapV(at[cell[k].v]) ELSE cell[k]]

Place(h, tpl, at) ==
    [a \in Addrs |->
        IF \E i \in 1 .. Len(tpl) : at[i] = a
        THEN Rebase(tpl[CHOOSE i \in 1 .. Len(tpl) : at[i] = a], at)
        ELSE h[a]]

\* The cells a walk from reference a finds, in the order it finds them.
RECURSIVE Visit(_, _, _)
RECURSIVE VisitKeys(_, _, _, _)
Visit(h, seen, a) ==
    IF a \notin Addrs \/ (\E i \in 1 .. Len(seen) : seen[i] = a)
    THEN seen
    ELSE VisitKeys(h, Append(seen, a), a, 1)

VisitKeys(h, seen, a, i) ==
    IF i > Len(KeySeq)
    THEN seen
    ELSE LET val == h[a][KeySeq[i]]
         IN  VisitKeys(h, IF val.t = "map" THEN Visit(h, seen, val.v) ELSE seen,
                       a, i + 1)

RECURSIVE VisitAll(_, _, _, _)
VisitAll(h, seen, roots, i) ==
    IF i > Len(roots)
    THEN seen
    ELSE VisitAll(h, Visit(h, seen, roots[i]), roots, i + 1)

\* The tree under a value, by content: one entry per node, keyed by its path.
RECURSIVE DeepVal(_, _, _)
DeepVal(h, val, at) ==
    IF val.t = "map"
    THEN {<<at, "map", 0>>}
         \cup UNION {DeepVal(h, h[val.v][k], Append(at, k)) :
                        k \in {x \in Keys : h[val.v][x].t # "none"}}
    ELSE {<<at, val.t, val.v>>}

-----------------------------------------------------------------------------
(* Tree primitives.                                                         *)

\* A traverse that names only the failing segment in its errors.
RECURSIVE traverseFrom_partOnly(_, _, _, _)
traverseFrom_partOnly(h, current, parts, i) ==
    LET part == parts[i]
        hit == h[current][part]
    IN  IF i = Len(parts)
        THEN IF hit.t = "none"
             THEN Res("key-missing", NilV, <<part>>)
             ELSE Ok(hit)
        ELSE IF hit.t = "map"
             THEN traverseFrom_partOnly(h, hit.v, parts, i + 1)
             ELSE IF hit.t = "none"
                  THEN Res("key-missing", NilV, <<part>>)
                  ELSE Res("not-a-map", NilV, <<part>>)

\* traverse: walks parts from map object current; i is the loop index.
RECURSIVE traverseFrom(_, _, _, _)
traverseFrom(h, current, parts, i) ==
    LET part == parts[i]
        hit == h[current][part]
    IN  IF i = Len(parts)
        THEN IF hit.t = "none"
             THEN Res("key-missing", NilV, <<part>>)
             ELSE Ok(hit)
        ELSE IF hit.t = "map"
             THEN traverseFrom(h, hit.v, parts, i + 1)
             ELSE IF hit.t = "none"
                  THEN Res("key-missing", NilV, SubSeq(parts, 1, i))
                  ELSE Res("not-a-map", NilV, SubSeq(parts, 1, i))

traverse(h, config, parts) == traverseFrom(h, config, parts, 1)

\* A lookup that answers a one-segment path before it looks at the entry.
lookup_wholeFirst(cfgs, h, parts) ==
    LET section == parts[1]
        config == cfgs[section]
    IN  IF config = NoEntry
        THEN Res("section-missing", NilV, <<section>>)
        ELSE IF Len(parts) = 1
             THEN Ok(IF config = NilMap THEN NilV ELSE MapV(config))
             ELSE IF config = NilMap
                  THEN Res("section-nil", NilV, <<section>>)
                  ELSE traverse(h, config, Tail(parts))

\* ConfigRegistry.lookup: parts is strings.Split(path, "."), never empty.
lookup(cfgs, h, parts) ==
    LET section == parts[1]
        config == cfgs[section]
    IN  IF config = NoEntry
        THEN Res("section-missing", NilV, <<section>>)
        ELSE IF config = NilMap
             THEN Res("section-nil", NilV, <<section>>)
             ELSE IF Len(parts) = 1
                  THEN Ok(MapV(config))
                  ELSE traverse(h, config, Tail(parts))

\* An iteration that makes a fresh map whatever the key holds.
setValueDescend_always(h, current, part) ==
    LET next == NewCells(h, 1)[1]
    IN  [h |-> [h EXCEPT ![next] = EmptyMap, ![current][part] = MapV(next)],
         cur |-> next]

\* One iteration of setValue's loop over parts[:len(parts)-1]: descend into
\* the map at part, or put a fresh empty map there.
setValueDescend(h, current, part) ==
    IF h[current][part].t = "map"
    THEN [h |-> h, cur |-> h[current][part].v]
    ELSE LET next == NewCells(h, 1)[1]
         IN  [h |-> [h EXCEPT ![next] = EmptyMap, ![current][part] = MapV(next)],
              cur |-> next]

\* setValue's last statement: current[parts[len(parts)-1]] = value.
setValueAssign(h, current, key, value) ==
    [h EXCEPT ![current][key] = value]

\* The paths callers use, already split: a section name, then keys.
Paths ==
    {<<n>> : n \in Names}
    \cup {<<n, k>> : n \in Names, k \in Keys}
    \cup {<<n, k1, k2>> : n \in Names, k1 \in Keys, k2 \in Keys}

\* The dotted string a caller passes for parts: lookup and Set get parts
\* back from it with strings.Split(path, "."); names and keys are one
\* character each.
RECURSIVE PathString(_)
PathString(parts) ==
    IF Len(parts) = 1
    THEN <<parts[1]>>
    ELSE <<parts[1], ".">> \o PathString(Tail(parts))

\* A Get result as its caller can compare it: the error, or the value by
\* content.
View(h, res) ==
    [err |-> res.err, pfx |-> res.pfx, val |-> DeepVal(h, res.val, << >>)]

\* What Get returns for every path.
GetResults(cfgs, h) == [p \in Paths |-> View(h, lookup(cfgs, h, p))]

\* What Get(name) returns once a loader invocation's outcome is stored.
OutcomeView(name, o) ==
    LET cells == Template(o)
        at == [i \in 1 .. Len(cells) |-> i]
        none == [a \in Addrs |-> FreeCell]
    IN  IF o = "nil"
        THEN View(none, Res("section-nil", NilV, <<name>>))
        ELSE View(Place(none, cells, at), Ok(MapV(1)))

EmptyView == View([a \in Addrs |-> EmptyMap], Ok(MapV(1)))

-----------------------------------------------------------------------------
(* State.                                                                   *)

VARIABLES
    globalConfigRegistry,   \* the singleton: 0 is nil, else the instance
    onceDone,               \* globalConfigRegistryOnce has run its function
    onceM,                  \* the goroutine inside globalConfigRegistryOnce.Do
    configs,                \* r.configs: section name -> map reference
    loaders,                \* r.loaders: section name -> loader
    mu,                     \* r.mu: the writer and the readers holding it
    heap,                   \* the map objects
    pc,                     \* where each goroutine is
    local,                  \* its call's arguments and locals
    result,                 \* what its call returned (pc = "ret")
    fn,                     \* the package function or method under call
    args,                   \* its arguments
    out,                    \* what it returned
    cache,                  \* PathCache.cache: the (path, slice) pairs stored
    slices,                 \* the []string slices strings.Split has made
    firstGot                \* the slice each path's first PathCache.Get returned

vars == <<globalConfigRegistry, onceDone, onceM, configs, loaders, mu, heap,
          pc, local, result, fn, args, out, cache, slices, firstGot>>

\* The variables of a call outside the registry's goroutines, and of the
\* path cache.
fnVars == <<fn, args, out>>
cacheVars == <<cache, slices, firstGot>>

\* A call's frame.  ran, by, calls and before are history: the outcome of
\* each loader this Refresh has invoked, which loader that was and how many
\* times it was invoked, and what Get returned for every path when Register
\* or Refresh took the lock.
Loc0 ==
    [op |-> "", name |-> "", loader |-> NoLoader, path |-> << >>,
     value |-> NoneV, cur |-> NoEntry, idx |-> 0, pending |-> {},
     outcome |-> "", env |-> "", tgt |-> "",
     ran |-> [n \in Names |-> ""], by |-> [n \in Names |-> NoLoader],
     calls |-> [n \in Names |-> 0], before |-> << >>]

Call(op) == [Loc0 EXCEPT !.op = op]

NoConfigs == [n \in Names |-> NoEntry]
NoLoaders == [n \in Names |-> NoLoader]
NoHeap == [a \in Addrs |-> FreeCell]

\* No call made yet, no PathCache entry stored.
NoCall ==
    /\ fn = ""
    /\ out = NoRes

NoCache ==
    /\ cache = {}
    /\ slices = << >>
    /\ firstGot = {}

\* No goroutine has called anything.
NoGoroutines ==
    /\ onceM = NoThread
    /\ mu = [w |-> NoThread, r |-> {}]
    /\ pc = [t \in Threads |-> "idle"]
    /\ local = [t \in Threads |-> Loc0]
    /\ result = [t \in Threads |-> NoRes]

Init ==
    /\ globalConfigRegistry = 0
    /\ onceDone = FALSE
    /\ configs = NoConfigs
    /\ loaders = NoLoaders
    /\ heap = NoHeap
    /\ NoGoroutines
    /\ NoCall
    /\ args = << >>
    /\ NoCache

\* Every reference the registry or a goroutine holds, in a fixed order.
Roots(cfgs, loc, res) ==
    [i \in 1 .. Len(NameSeq) |-> cfgs[NameSeq[i]]]
    \o [i \in 1 .. Len(ThreadSeq) |-> loc[ThreadSeq[i]].cur]
    \o [i \in 1 .. Len(ThreadSeq) |->
           IF res[ThreadSeq[i]].val.t = "map"
           THEN res[ThreadSeq[i]].val.v
           ELSE NoEntry]

\* The step's new maps and references: cells no reference reaches any more
\* are reclaimed, the others kept in the order a walk from Roots finds them.
Commit(cfgs, loc, res, h) ==
    LET order == VisitAll(h, << >>, Roots(cfgs, loc, res), 1)
        ren(a) == IF a \in Addrs
                  THEN CHOOSE i \in 1 .. Len(order) : order[i] = a
                  ELSE a
        renV(val) == IF val.t = "map" THEN MapV(ren(val.v)) ELSE val
    IN  /\ configs' = [n \in Names |-> ren(cfgs[n])]
        /\ local' = [t \in Threads |-> [loc[t] EXCEPT !.cur = ren(@)]]
        /\ result' = [t \in Threads |-> [res[t] EXCEPT !.val = renV(@)]]
        /\ heap' = [a \in Addrs |->
                       IF a <= Len(order)
                       THEN [k \in Keys |-> renV(h[order[a]][k])]
                       ELSE FreeCell]

\* sync.RWMutex.
CanRLock_always(m) == TRUE

CanRLock(m) == m.w = NoThread

CanLock(m) == m.w = NoThread /\ m.r = {}

Lock(m, t) == [m EXCEPT !.w = t]
Unlock(m, t) == [m EXCEPT !.w = NoThread]
RLock(m, t) == [m EXCEPT !.r = @ \cup {t}]
RUnlock(m, t) == [m EXCEPT !.r = @ \ {t}]

\* What the first statement of a method needs of r.mu to get past it:
\* RLock in Get and in the typed getters (which call Get), Lock in Set and
\* Register, nothing in the env accessors.  The mutex is not reentrant.
Enters(m, call) ==
    CASE call \in {"Get", "GetInt"} -> CanRLock(m)
      [] call \in {"Set", "Register"} -> CanLock(m)
      [] OTHER -> TRUE

\* A method can be called once GetConfigRegistry has handed out the registry.
HasRegistry == globalConfigRegistry # 0

\* The map objects an invocation's outcome allocates: the returned tree, or
\* the empty map the recover handler makes.
OutcomeCells(o) ==
    IF o = "panic" THEN <<EmptyMap>> ELSE Template(o)

NeedCells(l) ==
    CHOOSE n \in 0 .. MaxHeap + 2 :
        /\ \E o \in Outcomes(l) : Len(OutcomeCells(o)) = n
        /\ \A o \in Outcomes(l) : Len(OutcomeCells(o)) <= n

Goto(t, where) == pc' = [pc EXCEPT ![t] = where]

Returns(res, t, r) == [res EXCEPT ![t] = r]

RECURSIVE SumCells(_, _)
SumCells(ldrs, S) ==
    IF S = {}
    THEN 0
    ELSE LET n == CHOOSE x \in S : TRUE
         IN  NeedCells(ldrs[n]) + SumCells(ldrs, S \ {n})

-----------------------------------------------------------------------------
(* GetConfigRegistry.                                                       *)

Envs == {"", "testing", "production", "bogus"}

\* The fast path of sync.Once.Do: the function has run, it is not run again.
OnceSkips_never == FALSE

OnceSkips == onceDone

\* The function handed to Do: the error it leaves in initErr.
InitErr(env, dotenvOk) ==
    IF env = ""
    THEN "init-env-missing"
    ELSE IF env \in {"development", "staging", "production"}
         THEN IF dotenvOk THEN "none" ELSE "init-dotenv-failed"
         ELSE IF env = "testing"
              THEN IF dotenvOk THEN "none" ELSE "init-dotenv-failed"
              ELSE "init-env-invalid"

\* The two return statements after Do.
InitReturn(initErr, reg) ==
    IF initErr # "none"
    THEN Res(initErr, NilV, << >>)
    ELSE Ok(IF reg = 0 THEN NilV ELSE RegV(reg))

\* GetConfigRegistry up to Do: returns at once when the Once is spent, else
\* enters Do (one goroutine at a time; the others wait on the Once's mutex).
GetConfigRegistry(t, env) ==
    /\ pc[t] = "idle"
    /\ IF OnceSkips
       THEN /\ Goto(t, "ret")
            /\ result' = Returns(result, t, InitReturn("none", globalConfigRegistry))
            /\ local' = [local EXCEPT
                            ![t] = [Call("GetConfigRegistry") EXCEPT !.env = env]]
            /\ UNCHANGED onceM
       ELSE /\ onceM = NoThread
            /\ onceM' = t
            /\ Goto(t, "init_run")
            /\ local' = [local EXCEPT
                            ![t] = [Call("GetConfigRegistry") EXCEPT !.env = env]]
            /\ UNCHANGED result
    /\ UNCHANGED <<globalConfigRegistry, onceDone, configs, loaders, mu, heap>>

\* The function run under Do, and the return that follows it.
InitOnce(t) ==
    /\ pc[t] = "init_run"
    /\ \E dotenvOk \in BOOLEAN :
          LET initErr == InitErr(local[t].env, dotenvOk)
              reg == IF initErr = "none"
                     THEN globalConfigRegistry + 1
                     ELSE globalConfigRegistry
          IN  /\ globalConfigRegistry' = reg
              /\ loaders' = IF initErr = "none" THEN NoLoaders ELSE loaders
              /\ Commit(IF initErr = "none" THEN NoConfigs ELSE configs,
                        local,
                        Returns(result, t, InitReturn(initErr, reg)),
                        heap)
    /\ onceDone' = TRUE
    /\ onceM' = NoThread
    /\ Goto(t, "ret")
    /\ UNCHANGED mu

-----------------------------------------------------------------------------
(* Register.                                                                *)

\* The recover handler of Register: r.configs[name] = make(...).
RegisterRecover_skip(cfgs, name, cell) == cfgs

RegisterRecover_keep(cfgs, name, cell) ==
    IF cfgs[name] = NoEntry THEN [cfgs EXCEPT ![name] = cell] ELSE cfgs

RegisterRecover(cfgs, name, cell) == [cfgs EXCEPT ![name] = cell]

\* r.configs[name] = loader(r), the loader having returned.
RegisterStore(cfgs, name, root) == [cfgs EXCEPT ![name] = root]

RegisterLock(t, name, loader) ==
    /\ pc[t] = "idle"
    /\ HasRegistry
    /\ CanLock(mu)
    /\ FreeCount(heap) >= NeedCells(loader)
    /\ mu' = Lock(mu, t)
    /\ Goto(t, "reg_locked")
    /\ local' = [local EXCEPT
                    ![t] = [Call("Register") EXCEPT
                               !.name = name,
                               !.loader = loader,
                               !.before = GetResults(configs, heap)]]
    /\ UNCHANGED <<globalConfigRegistry, onceDone, onceM, configs, loaders, heap,
                   result>>

\* r.loaders[name] = loader
RegisterLoader(t) ==
    /\ pc[t] = "reg_locked"
    /\ loaders' = [loaders EXCEPT ![local[t].name] = local[t].loader]
    /\ Goto(t, "reg_call")
    /\ UNCHANGED <<globalConfigRegistry, onceDone, onceM, configs, mu, heap, local,
                   result>>

\* The loader's invocation, the store or the recover handler, and Unlock.
\* A loader that calls the registry gets no further than the lock its
\* method takes.
RegisterCall(t) ==
    /\ pc[t] = "reg_call"
    /\ Enters(mu, Calls(local[t].loader))
    /\ \E o \in Outcomes(local[t].loader) :
          LET name == local[t].name
              cells == OutcomeCells(o)
              at == NewCells(heap, Len(cells))
              root == IF o = "nil" THEN NilMap ELSE at[1]
          IN  Commit(IF o = "panic"
                     THEN RegisterRecover(configs, name, root)
                     ELSE RegisterStore(configs, name, root),
                     [local EXCEPT ![t].outcome = o],
                     Returns(result, t, Ok(NilV)),
                     Place(heap, cells, at))
    /\ mu' = Unlock(mu, t)
    /\ Goto(t, "ret")
    /\ UNCHANGED <<globalConfigRegistry, onceDone, onceM, loaders>>

-----------------------------------------------------------------------------
(* Refresh.                                                                 *)

\* The recover handler of Refresh: make an empty section only if none exists.
RefreshRecover_always(cfgs, name, cell) == [cfgs EXCEPT ![name] = cell]

RefreshRecover(cfgs, name, cell) ==
    IF cfgs[name] = NoEntry THEN [cfgs EXCEPT ![name] = cell] ELSE cfgs

\* r.configs[name] = loader(r), the loader having returned.
RefreshStore_nil(cfgs, name, root) == [cfgs EXCEPT ![name] = NilMap]

\* A store that keeps the section a name already has.
RefreshStore_keep(cfgs, name, root) ==
    IF cfgs[name] = NoEntry THEN [cfgs EXCEPT ![name] = root] ELSE cfgs

RefreshStore(cfgs, name, root) == [cfgs EXCEPT ![name] = root]

Registered(ldrs) == {n \in Names : ldrs[n] # NoLoader}

RefreshLock(t) ==
    /\ pc[t] = "idle"
    /\ HasRegistry
    /\ CanLock(mu)
    /\ FreeCount(heap) >= SumCells(loaders, Registered(loaders))
    /\ mu' = Lock(mu, t)
    /\ Goto(t, "ref_loop")
    /\ local' = [local EXCEPT
                    ![t] = [Call("Refresh") EXCEPT
                               !.pending = Registered(loaders),
                               !.before = GetResults(configs, heap)]]
    /\ UNCHANGED <<globalConfigRegistry, onceDone, onceM, configs, loaders, heap,
                   result>>

\* One iteration of "for name, loader := range r.loaders", in any order.
RefreshLoader(t) ==
    /\ pc[t] = "ref_loop"
    /\ \E name \in local[t].pending :
          \E o \in Outcomes(loaders[name]) :
             LET cells == OutcomeCells(o)
                 at == NewCells(heap, Len(cells))
                 root == IF o = "nil" THEN NilMap ELSE at[1]
             IN  /\ Enters(mu, Calls(loaders[name]))
                 /\ Commit(IF o = "panic"
                           THEN RefreshRecover(configs, name, root)
                           ELSE RefreshStore(configs, name, root),
                           [local EXCEPT ![t].pending = @ \ {name},
                                         ![t].ran[name] = o,
                                         ![t].by[name] = loaders[name],
                                         ![t].calls[name] = @ + 1],
                           result,
                           Place(heap, cells, at))
    /\ Goto(t, "ref_loop")
    /\ UNCHANGED <<globalConfigRegistry, onceDone, onceM, loaders, mu>>

\* The loop has ended: Unlock and return.
RefreshReturn(t) ==
    /\ pc[t] = "ref_loop"
    /\ local[t].pending = {}
    /\ mu' = Unlock(mu, t)
    /\ Goto(t, "ret")
    /\ result' = Returns(result, t, Ok(NilV))
    /\ UNCHANGED <<globalConfigRegistry, onceDone, onceM, configs, loaders, heap,
                   local>>

-----------------------------------------------------------------------------
(* Get.                                                                     *)

GetRLock(t, path) ==
    /\ pc[t] = "idle"
    /\ HasRegistry
    /\ CanRLock(mu)
    /\ mu' = RLock(mu, t)
    /\ Goto(t, "get_locked")
    /\ local' = [local EXCEPT ![t] = [Call("Get") EXCEPT !.path = path]]
    /\ UNCHANGED <<globalConfigRegistry, onceDone, onceM, configs, loaders, heap,
                   result>>

\* r.lookup(path), RUnlock and return: a map is returned by reference.
GetLookup(t) ==
    /\ pc[t] = "get_locked"
    /\ Commit(configs, local,
              Returns(result, t, lookup(configs, heap, local[t].path)), heap)
    /\ mu' = RUnlock(mu, t)
    /\ Goto(t, "ret")
    /\ UNCHANGED <<globalConfigRegistry, onceDone, onceM, loaders>>

-----------------------------------------------------------------------------
(* Set.                                                                     *)

SetValues == {IntV(2)}

SetLock(t, path, value) ==
    /\ pc[t] = "idle"
    /\ HasRegistry
    /\ CanLock(mu)
    /\ FreeCount(heap) >= Len(path) - 2
    /\ mu' = Lock(mu, t)
    /\ Goto(t, "set_locked")
    /\ local' = [local EXCEPT
                    ![t] = [Call("Set") EXCEPT !.path = path, !.value = value]]
    /\ UNCHANGED <<globalConfigRegistry, onceDone, onceM, configs, loaders, heap,
                   result>>

\* Set's checks with the section looked up before the path is counted.
SetError_sectionFirst(cfgs, parts) ==
    IF cfgs[parts[1]] = NoEntry
    THEN Res("section-missing", NilV, <<parts[1]>>)
    ELSE IF Len(parts) < 2
         THEN Res("path-invalid", NilV, parts)
         ELSE Ok(NilV)

\* Set's two checks, in the order Set makes them: the error Set returns
\* before it calls setValue, if any.
SetError(cfgs, parts) ==
    IF Len(parts) < 2
    THEN Res("path-invalid", NilV, parts)
    ELSE IF cfgs[parts[1]] = NoEntry
         THEN Res("section-missing", NilV, <<parts[1]>>)
         ELSE Ok(NilV)

\* Set's two checks; on an error the deferred Unlock runs and Set returns.
SetCheck(t) ==
    /\ pc[t] = "set_locked"
    /\ LET parts == local[t].path IN
       IF SetError(configs, parts).err # "none"
       THEN /\ Goto(t, "ret")
            /\ result' = Returns(result, t, SetError(configs, parts))
            /\ mu' = Unlock(mu, t)
            /\ UNCHANGED local
       ELSE /\ Goto(t, "set_walk")
            /\ local' = [local EXCEPT ![t].cur = configs[parts[1]], ![t].idx = 2]
            /\ UNCHANGED <<mu, result>>
    /\ UNCHANGED <<globalConfigRegistry, onceDone, onceM, configs, loaders, heap>>

\* One statement of setValue that writes: an iteration of the loop, or the
\* final assignment (then Unlock and return).  A write to a nil map panics;
\* the deferred Unlock runs and the panic reaches Set's caller.
SetWalk(t) ==
    /\ pc[t] = "set_walk"
    /\ LET parts == local[t].path
           i == local[t].idx
           current == local[t].cur
       IN  IF current = NilMap
           THEN /\ Goto(t, "ret")
                /\ mu' = Unlock(mu, t)
                /\ Commit(configs, [local EXCEPT ![t].cur = NoEntry],
                          Returns(result, t, Res("panic", NilV, << >>)), heap)
           ELSE IF i < Len(parts)
                THEN LET step == setValueDescend(heap, current, parts[i]) IN
                     /\ Goto(t, "set_walk")
                     /\ Commit(configs,
                               [local EXCEPT ![t].cur = step.cur, ![t].idx = i + 1],
                               result, step.h)
                     /\ UNCHANGED mu
                ELSE /\ Goto(t, "ret")
                     /\ mu' = Unlock(mu, t)
                     /\ Commit(configs, [local EXCEPT ![t].cur = NoEntry],
                               Returns(result, t, Ok(NilV)),
                               setValueAssign(heap, current, parts[i], local[t].value))
    /\ UNCHANGED <<globalConfigRegistry, onceDone, onceM, loaders>>

-----------------------------------------------------------------------------
(* Unmarshal and UnmarshalKey.                                              *)

\* What a caller passes as v: a pointer to a struct, a nil pointer, a
\* pointer to an int, or a struct by value.
Targets == {"struct_ptr", "nil_ptr", "int_ptr", "struct"}

\* val.Kind() != reflect.Ptr || val.IsNil() is false: the target is taken.
TargetTaken(tgt) == tgt \in {"struct_ptr", "int_ptr"}

\* unmarshalInto: what the fields of the target receive from the map.
unmarshalInto(h, config) ==
    IF config = NilMap
    THEN {<< << >>, "map", 0>>}
    ELSE DeepVal(h, MapV(config), << >>)

\* unmarshalInto(config, val.Elem()) and the return of its caller:
\* typ.NumField() panics unless val.Elem() is a struct.
Project(h, config, tgt) ==
    IF tgt = "struct_ptr"
    THEN [Ok(NilV) EXCEPT !.out = unmarshalInto(h, config)]
    ELSE Res("panic", NilV, << >>)

UnmarshalRLock(t, section, tgt) ==
    /\ pc[t] = "idle"
    /\ HasRegistry
    /\ CanRLock(mu)
    /\ mu' = RLock(mu, t)
    /\ Goto(t, "unm_locked")
    /\ local' = [local EXCEPT
                    ![t] = [Call("Unmarshal") EXCEPT !.name = section, !.tgt = tgt]]
    /\ UNCHANGED <<globalConfigRegistry, onceDone, onceM, configs, loaders, heap,
                   result>>

\* Unmarshal's body, all of it under the read lock.
UnmarshalBody(t) ==
    /\ pc[t] = "unm_locked"
    /\ LET config == configs[local[t].name] IN
       result' = Returns(result, t,
           IF config = NoEntry
           THEN Res("section-missing", NilV, <<local[t].name>>)
           ELSE IF ~TargetTaken(local[t].tgt)
                THEN Res("unmarshal-target-invalid", NilV, << >>)
                ELSE Project(heap, config, local[t].tgt))
    /\ mu' = RUnlock(mu, t)
    /\ Goto(t, "ret")
    /\ UNCHANGED <<globalConfigRegistry, onceDone, onceM, configs, loaders, heap,
                   local>>

\* UnmarshalKey enters r.Get(path).
UnmarshalKeyRLock(t, path, tgt) ==
    /\ pc[t] = "idle"
    /\ HasRegistry
    /\ CanRLock(mu)
    /\ mu' = RLock(mu, t)
    /\ Goto(t, "ukey_locked")
    /\ local' = [local EXCEPT
                    ![t] = [Call("UnmarshalKey") EXCEPT !.path = path, !.tgt = tgt]]
    /\ UNCHANGED <<globalConfigRegistry, onceDone, onceM, configs, loaders, heap,
                   result>>

\* r.Get returns (its RUnlock has run), then UnmarshalKey's own checks.
UnmarshalKeyGet(t) ==
    /\ pc[t] = "ukey_locked"
    /\ mu' = RUnlock(mu, t)
    /\ LET got == lookup(configs, heap, local[t].path) IN
       IF got.err # "none"
       THEN /\ Goto(t, "ret")
            /\ Commit(configs, local, Returns(result, t, got), heap)
       ELSE IF got.val.t # "map"
            THEN /\ Goto(t, "ret")
                 /\ Commit(configs, local,
                           Returns(result, t, Res("value-not-a-map", NilV, << >>)),
                           heap)
            ELSE IF ~TargetTaken(local[t].tgt)
                 THEN /\ Goto(t, "ret")
                      /\ Commit(configs, local,
                                Returns(result, t,
                                        Res("unmarshal-target-invalid", NilV, << >>)),
                                heap)
                 ELSE /\ Goto(t, "ukey_project")
                      /\ Commit(configs, [local EXCEPT ![t].cur = got.val.v],
                                result, heap)
    /\ UNCHANGED <<globalConfigRegistry, onceDone, onceM, loaders>>

\* unmarshalInto(configMap, val.Elem()) on the map Get returned.
UnmarshalKeyProject(t) ==
    /\ pc[t] = "ukey_project"
    /\ Commit(configs, [local EXCEPT ![t].cur = NoEntry],
              Returns(result, t, Project(heap, local[t].cur, local[t].tgt)),
              heap)
    /\ Goto(t, "ret")
    /\ UNCHANGED <<globalConfigRegistry, onceDone, onceM, loaders, mu>>

-----------------------------------------------------------------------------
(* The env accessors: os.LookupEnv, with a default.                         *)

GetEnvCall(t) ==
    /\ pc[t] = "idle"
    /\ HasRegistry
    /\ Goto(t, "env_read")
    /\ local' = [local EXCEPT ![t] = Call("GetEnvString")]
    /\ UNCHANGED <<globalConfigRegistry, onceDone, onceM, configs, loaders, mu, heap,
                   result>>

GetEnvLookup(t) ==
    /\ pc[t] = "env_read"
    /\ \E exists \in BOOLEAN :
          result' = Returns(result, t, Ok(IF exists THEN IntV(1) ELSE IntV(0)))
    /\ Goto(t, "ret")
    /\ UNCHANGED <<globalConfigRegistry, onceDone, onceM, configs, loaders, mu, heap,
                   local>>

-----------------------------------------------------------------------------
\* The caller is done with what the call returned.
Return(t) ==
    /\ pc[t] = "ret"
    /\ Goto(t, "idle")
    /\ Commit(configs, [local EXCEPT ![t] = Loc0], Returns(result, t, NoRes), heap)
    /\ UNCHANGED <<globalConfigRegistry, onceDone, onceM, loaders, mu>>

\* One step of goroutine t, its calls drawing their arguments from the
\* given names, loaders, paths, values and unmarshal targets.
Step(t, names, ldrs, paths, setPaths, values, targets) ==
    \/ \E env \in Envs : GetConfigRegistry(t, env)
    \/ InitOnce(t)
    \/ \E name \in names, loader \in ldrs : RegisterLock(t, name, loader)
    \/ RegisterLoader(t)
    \/ RegisterCall(t)
    \/ RefreshLock(t)
    \/ RefreshLoader(t)
    \/ RefreshReturn(t)
    \/ \E path \in paths : GetRLock(t, path)
    \/ GetLookup(t)
    \/ \E path \in setPaths, value \in values : SetLock(t, path, value)
    \/ SetCheck(t)
    \/ SetWalk(t)
    \/ \E section \in names, tgt \in targets : UnmarshalRLock(t, section, tgt)
    \/ UnmarshalBody(t)
    \/ \E path \in paths, tgt \in targets : UnmarshalKeyRLock(t, path, tgt)
    \/ UnmarshalKeyGet(t)
    \/ UnmarshalKeyProject(t)
    \/ GetEnvCall(t)
    \/ GetEnvLookup(t)
    \/ Return(t)

\* One goroutine drives the registry through every call.
SeqSetPaths == {p \in Paths : p[1] = "s" \/ p = <<"t", "a">>}

Next ==
    /\ Step("T1", Names, Loaders, Paths, SeqSetPaths, SetValues, Targets)
    /\ UNCHANGED <<fnVars, cacheVars>>

Spec == Init /\ [][Next]_vars

\* Two goroutines share one section.
ConcPaths == {p \in Paths : p[1] = "s" /\ (Len(p) < 3 \/ p = <<"s", "a", "b">>)}

NextConc ==
    /\ \E t \in Threads :
          Step(t, {"s"}, {"flat", "nilmap"}, ConcPaths, ConcPaths, SetValues,
               {"struct_ptr", "nil_ptr"})
    /\ UNCHANGED <<fnVars, cacheVars>>

SpecConc == Init /\ [][NextConc]_vars

\* One goroutine, one section, and loaders that call the registry back.
CallbackPaths == {<<"s">>, <<"s", "a">>, <<"s", "a", "b">>}

NextCallback ==
    /\ Step("T1", {"s"}, {"flat", "boom"} \cup CallbackLoaders, CallbackPaths,
            CallbackPaths, SetValues, {"struct_ptr", "nil_ptr"})
    /\ UNCHANGED <<fnVars, cacheVars>>

SpecCallback == Init /\ [][NextCallback]_vars

-----------------------------------------------------------------------------
(* traverse on its own: a tree of nested maps and a list of segments.       *)

\* Depth of the trees, and length of the segment lists, traverse is given.
MaxDepth ==
    3

\* What a key of the map at depth d holds: nothing, a scalar, or the map
\* one level down.
TreeValues(d) ==
    {NoneV, IntV(1)} \cup (IF d < MaxDepth THEN {MapV(d + 1)} ELSE {})

\* The heaps holding one tree, its root in cell 1 and its map at depth d in
\* cell d.
RECURSIVE HeapsFrom(_)
HeapsFrom(d) ==
    IF d > MaxDepth \/ d \notin Addrs
    THEN {NoHeap}
    ELSE {[h EXCEPT ![d] = cell] :
             h \in HeapsFrom(d + 1), cell \in [Keys -> TreeValues(d)]}

TraverseHeaps == HeapsFrom(1)

RECURSIVE SeqsUpTo(_, _)
SeqsUpTo(S, n) ==
    IF n = 0
    THEN {<< >>}
    ELSE LET shorter == SeqsUpTo(S, n - 1)
         IN  shorter \cup {Append(q, x) : q \in shorter, x \in S}

TraverseParts == SeqsUpTo(Keys, MaxDepth) \ {<< >>}

InitTraverse ==
    /\ globalConfigRegistry = 0
    /\ onceDone = FALSE
    /\ configs = NoConfigs
    /\ loaders = NoLoaders
    /\ heap \in TraverseHeaps
    /\ NoGoroutines
    /\ NoCall
    /\ args \in [config : {1}, parts : TraverseParts]
    /\ NoCache

\* A call of traverse(config, parts, fullPath).
CallTraverse ==
    /\ fn = ""
    /\ fn' = "traverse"
    /\ out' = traverse(heap, args.config, args.parts)
    /\ UNCHANGED <<globalConfigRegistry, onceDone, onceM, configs, loaders, mu,
                   heap, pc, local, result, args, cacheVars>>

NextTraverse == CallTraverse

SpecTraverse == InitTraverse /\ [][NextTraverse]_vars

-----------------------------------------------------------------------------
(* Scalars, strings and slices: the values the typed getters coerce.  A     *)
(* string is its characters; a value holds a string, a []string or a        *)
(* []interface{} by its place in the table of those the callers use.  A     *)
(* float64 is held in halves: FloatV(3) is 1.5.                             *)

Strings ==
    << << >>,
       <<"7">>,
       <<"-", "2">>,
       <<"x">>,
       <<"t", "r", "u", "e">>,
       <<"T">>,
       <<"1", ".", "5">>,
       <<"a", ",", " ", "b">>,
       <<"a">>,
       <<"b">> >>

StringId(chars) == CHOOSE i \in 1 .. Len(Strings) : Strings[i] = chars

StrV(chars) == [t |-> "string", v |-> StringId(chars)]
BoolV(b) == [t |-> "bool", v |-> IF b THEN 1 ELSE 0]
FloatV(halves) == [t |-> "float64", v |-> halves]

\* []string values, each a sequence of strings: the empty slice, a slice of
\* two, and the slice of one for every string.
StringSlices ==
    << << >>, << <<"a">>, <<"b">> >> >>
    \o [i \in 1 .. Len(Strings) |-> <<Strings[i]>>]

SliceId(strs) == CHOOSE i \in 1 .. Len(StringSlices) : StringSlices[i] = strs

StringsV(strs) == [t |-> "[]string", v |-> SliceId(strs)]

\* []interface{} values.
Lists ==
    << <<StrV(<<"a">>), StrV(<<"b">>)>>,
       <<StrV(<<"a">>), IntV(1)>> >>

ListV(i) == [t |-> "[]interface{}", v |-> i]

DigitChars == <<"0", "1", "2", "3", "4", "5", "6", "7", "8", "9">>

IsDigit(c) == \E i \in 1 .. Len(DigitChars) : DigitChars[i] = c

DigitVal(c) == (CHOOSE i \in 1 .. Len(DigitChars) : DigitChars[i] = c) - 1

RECURSIVE DigitsVal(_)
DigitsVal(chars) ==
    IF chars = << >>
    THEN 0
    ELSE 10 * DigitsVal(SubSeq(chars, 1, Len(chars) - 1))
         + DigitVal(chars[Len(chars)])

AllDigits(chars) ==
    chars # << >> /\ \A i \in 1 .. Len(chars) : IsDigit(chars[i])

Signed(chars) == chars # << >> /\ chars[1] \in {"+", "-"}

Unsigned(chars) == IF Signed(chars) THEN Tail(chars) ELSE chars

\* strconv.Atoi: an optional sign and decimal digits.
Atoi(chars) ==
    IF AllDigits(Unsigned(chars))
    THEN [ok |-> TRUE,
          n |-> IF chars[1] = "-"
                THEN 0 - DigitsVal(Unsigned(chars))
                ELSE DigitsVal(Unsigned(chars))]
    ELSE [ok |-> FALSE, n |-> 0]

\* strconv.ParseBool.
ParseBool(chars) ==
    IF chars \in {<<"1">>, <<"t">>, <<"T">>, <<"T", "R", "U", "E">>,
                  <<"t", "r", "u", "e">>, <<"T", "r", "u", "e">>}
    THEN [ok |-> TRUE, b |-> TRUE]
    ELSE IF chars \in {<<"0">>, <<"f">>, <<"F">>, <<"F", "A", "L", "S", "E">>,
                       <<"f", "a", "l", "s", "e">>, <<"F", "a", "l", "s", "e">>}
         THEN [ok |-> TRUE, b |-> FALSE]
         ELSE [ok |-> FALSE, b |-> FALSE]

\* strconv.ParseFloat on the decimal forms whose value is a number of
\* halves: digits, or digits "." then "0" or "5".
ParseFloat(chars) ==
    LET dots == {i \in 1 .. Len(chars) : chars[i] = "."}
    IN  IF dots = {}
        THEN [ok |-> Atoi(chars).ok, halves |-> 2 * Atoi(chars).n]
        ELSE LET d == CHOOSE i \in dots : TRUE
                 whole == Atoi(SubSeq(chars, 1, d - 1))
                 frac == SubSeq(chars, d + 1, Len(chars))
                 half == IF frac = <<"5">> THEN 1 ELSE 0
             IN  IF Cardinality(dots) = 1 /\ whole.ok /\ frac \in {<<"0">>, <<"5">>}
                 THEN [ok |-> TRUE,
                       halves |-> IF chars[1] = "-"
                                  THEN 2 * whole.n - half
                                  ELSE 2 * whole.n + half]
                 ELSE [ok |-> FALSE, halves |-> 0]

\* int(v) of a float64: truncation toward zero.
Truncate(halves) ==
    IF halves >= 0 THEN halves \div 2 ELSE 0 - ((0 - halves) \div 2)

\* strings.Split(s, sep) for a one-character separator.
RECURSIVE Split(_, _)
Split(chars, sep) ==
    LET at == {i \in 1 .. Len(chars) : chars[i] = sep}
    IN  IF at = {}
        THEN <<chars>>
        ELSE LET i == CHOOSE x \in at : \A y \in at : x <= y
             IN  <<SubSeq(chars, 1, i - 1)>>
                 \o Split(SubSeq(chars, i + 1, Len(chars)), sep)

\* strings.TrimSpace.
RECURSIVE TrimSpace(_)
TrimSpace(chars) ==
    IF chars # << >> /\ chars[1] = " "
    THEN TrimSpace(Tail(chars))
    ELSE IF chars # << >> /\ chars[Len(chars)] = " "
         THEN TrimSpace(SubSeq(chars, 1, Len(chars) - 1))
         ELSE chars

-----------------------------------------------------------------------------
(* The typed getters: r.Get(path), then the coercion of what it returned.   *)

NilSlice == [t |-> "[]string", v |-> 0]

\* The branch every getter takes when r.Get failed: the first default if
\* one was passed, else the zero value and Get's error.
GetterDefault(got, defaultValue, zero) ==
    IF Len(defaultValue) > 0
    THEN Ok(defaultValue[1])
    ELSE [got EXCEPT !.val = zero]

Mismatch(zero) == Res("type-mismatch", zero, << >>)
ParseFailed(zero) == Res("parse-failed", zero, << >>)

GetString(cfgs, h, path, defaultValue) ==
    LET got == lookup(cfgs, h, path)
        zero == StrV(<< >>)
    IN  IF got.err # "none"
        THEN GetterDefault(got, defaultValue, zero)
        ELSE IF got.val.t = "string" THEN Ok(got.val) ELSE Mismatch(zero)

\* A GetInt that falls back on its default when the value does not coerce.
GetInt_lenient(cfgs, h, path, defaultValue) ==
    LET got == lookup(cfgs, h, path)
        value == got.val
    IN  IF got.err = "none" /\ value.t = "int"
        THEN Ok(value)
        ELSE GetterDefault([got EXCEPT !.err = "type-mismatch"], defaultValue, IntV(0))

GetInt(cfgs, h, path, defaultValue) ==
    LET got == lookup(cfgs, h, path)
        value == got.val
        zero == IntV(0)
    IN  IF got.err # "none"
        THEN GetterDefault(got, defaultValue, zero)
        ELSE CASE value.t = "int" -> Ok(value)
               [] value.t = "float64" -> Ok(IntV(Truncate(value.v)))
               [] value.t = "string" ->
                    IF Atoi(Strings[value.v]).ok
                    THEN Ok(IntV(Atoi(Strings[value.v]).n))
                    ELSE ParseFailed(zero)
               [] OTHER -> Mismatch(zero)

GetBool(cfgs, h, path, defaultValue) ==
    LET got == lookup(cfgs, h, path)
        value == got.val
        zero == BoolV(FALSE)
    IN  IF got.err # "none"
        THEN GetterDefault(got, defaultValue, zero)
        ELSE CASE value.t = "bool" -> Ok(value)
               [] value.t = "string" ->
                    IF ParseBool(Strings[value.v]).ok
                    THEN Ok(BoolV(ParseBool(Strings[value.v]).b))
                    ELSE ParseFailed(zero)
               [] OTHER -> Mismatch(zero)

GetFloat(cfgs, h, path, defaultValue) ==
    LET got == lookup(cfgs, h, path)
        value == got.val
        zero == FloatV(0)
    IN  IF got.err # "none"
        THEN GetterDefault(got, defaultValue, zero)
        ELSE CASE value.t = "float64" -> Ok(value)
               [] value.t = "int" -> Ok(FloatV(2 * value.v))
               [] value.t = "string" ->
                    IF ParseFloat(Strings[value.v]).ok
                    THEN Ok(FloatV(ParseFloat(Strings[value.v]).halves))
                    ELSE ParseFailed(zero)
               [] OTHER -> Mismatch(zero)

GetStringArray(cfgs, h, path, defaultValue) ==
    LET got == lookup(cfgs, h, path)
        value == got.val
    IN  IF got.err # "none"
        THEN GetterDefault(got, defaultValue, NilSlice)
        ELSE CASE value.t = "[]string" -> Ok(value)
               [] value.t = "string" ->
                    IF Strings[value.v] = << >>
                    THEN Ok(StringsV(<< >>))
                    ELSE LET parts == Split(Strings[value.v], ",")
                         IN  Ok(StringsV([i \in 1 .. Len(parts) |->
                                            TrimSpace(parts[i])]))
               [] value.t = "[]interface{}" ->
                    LET v == Lists[value.v]
                    IN  IF \E i \in 1 .. Len(v) : v[i].t # "string"
                        THEN Res("array-element-mismatch", NilSlice, << >>)
                        ELSE Ok(StringsV([i \in 1 .. Len(v) |-> Strings[v[i].v]]))
               [] OTHER -> Mismatch(NilSlice)

\* The values a section holds at key "a" when a getter is called.
GetterValues ==
    {StrV(Strings[i]) : i \in 1 .. Len(Strings)}
    \cup {StringsV(StringSlices[i]) : i \in 1 .. Len(StringSlices)}
    \cup {ListV(i) : i \in 1 .. Len(Lists)}
    \cup {IntV(7), FloatV(3), FloatV(0 - 3), BoolV(TRUE), NilV, MapV(2)}

\* The variadic defaultValue of each getter: absent, or one value.
GetterDefaults ==
    [GetString |-> {<< >>, <<StrV(<<"x">>)>>},
     GetInt |-> {<< >>, <<IntV(7)>>},
     GetBool |-> {<< >>, <<BoolV(TRUE)>>},
     GetFloat |-> {<< >>, <<FloatV(3)>>},
     GetStringArray |-> {<< >>, <<StringsV(<< <<"x">> >>)>>}]

Getters == DOMAIN GetterDefaults

\* Section "s" is missing, nil, or a tree {a: value}; a map value is empty.
InitGetters ==
    /\ globalConfigRegistry = 1
    /\ onceDone = TRUE
    /\ loaders = NoLoaders
    /\ \E config \in {NoEntry, NilMap, 1} :
          /\ configs = [NoConfigs EXCEPT !["s"] = config]
          /\ IF config = 1
             THEN \E value \in GetterValues :
                     heap = [NoHeap EXCEPT
                                ![1] = [EmptyMap EXCEPT !["a"] = value],
                                ![2] = IF value.t = "map" THEN EmptyMap ELSE FreeCell]
             ELSE heap = NoHeap
    /\ NoGoroutines
    /\ NoCall
    /\ args = [path |-> << >>, defaultValue |-> << >>]
    /\ NoCache

\* A getter's call and return; the registry is as it was.
CallGetter(getter, path, defaultValue, res) ==
    /\ fn' = getter
    /\ args' = [path |-> path, defaultValue |-> defaultValue]
    /\ out' = res
    /\ UNCHANGED <<globalConfigRegistry, onceDone, onceM, configs, loaders, mu,
                   heap, pc, local, result, cacheVars>>

CallGetString ==
    \E path \in Paths, dv \in GetterDefaults.GetString :
        CallGetter("GetString", path, dv, GetString(configs, heap, path, dv))

CallGetInt ==
    \E path \in Paths, dv \in GetterDefaults.GetInt :
        CallGetter("GetInt", path, dv, GetInt(configs, heap, path, dv))

CallGetBool ==
    \E path \in Paths, dv \in GetterDefaults.GetBool :
        CallGetter("GetBool", path, dv, GetBool(configs, heap, path, dv))

CallGetFloat ==
    \E path \in Paths, dv \in GetterDefaults.GetFloat :
        CallGetter("GetFloat", path, dv, GetFloat(configs, heap, path, dv))

CallGetStringArray ==
    \E path \in Paths, dv \in GetterDefaults.GetStringArray :
        CallGetter("GetStringArray", path, dv,
                   GetStringArray(configs, heap, path, dv))

NextGetters ==
    \/ CallGetString
    \/ CallGetInt
    \/ CallGetBool
    \/ CallGetFloat
    \/ CallGetStringArray

SpecGetters == InitGetters /\ [][NextGetters]_vars

-----------------------------------------------------------------------------
(* PathCache (src/path.go), used by one goroutine.  A []string is an object *)
(* with identity: slices[id] is the content of the id-th slice made.        *)

\* Slices made by strings.Split over the life of one cache.
MaxSlices ==
    3

\* The dotted paths the cache is asked for.
CachePaths ==
    { << >>,
      <<"a">>,
      <<"a", ".", "b">>,
      <<"a", ".", ".", "b">>,
      <<".", "a">>,
      <<"a", ".">> }

SliceV(id) == [t |-> "[]string", v |-> id]

\* A Load that never finds the key.
CacheLoad_miss(c, path) == {}

\* pc.cache.Load(path): the entry stored under path, if any.
CacheLoad(c, path) == {e \in c : e.path = path}

\* pc.cache.Store(path, parts).
CacheStore(c, path, id) ==
    {e \in c : e.path # path} \cup {[path |-> path, slice |-> id]}

InitCache ==
    /\ globalConfigRegistry = 0
    /\ onceDone = FALSE
    /\ configs = NoConfigs
    /\ loaders = NoLoaders
    /\ heap = NoHeap
    /\ NoGoroutines
    /\ NoCall
    /\ args = [path |-> << >>, ok |-> FALSE]
    /\ NoCache

\* PathCache.Get(path); firstGot keeps what the first call for path returned.
PathCacheGet(path) ==
    LET cached == CacheLoad(cache, path)
        ok == cached # {}
        id == IF ok THEN (CHOOSE e \in cached : TRUE).slice ELSE Len(slices) + 1
    IN  /\ ok \/ Len(slices) < MaxSlices
        /\ fn' = "PathCache.Get"
        /\ args' = [path |-> path, ok |-> ok]
        /\ out' = Ok(SliceV(id))
        /\ slices' = IF ok THEN slices ELSE Append(slices, Split(path, "."))
        /\ cache' = IF ok THEN cache ELSE CacheStore(cache, path, id)
        /\ firstGot' = IF \E e \in firstGot : e.path = path
                       THEN firstGot
                       ELSE firstGot \cup {[path |-> path, slice |-> id]}
        /\ UNCHANGED <<globalConfigRegistry, onceDone, onceM, configs, loaders, mu,
                       heap, pc, local, result>>

NextCache == \E path \in CachePaths : PathCacheGet(path)

SpecCache == InitCache /\ [][NextCache]_vars

-----------------------------------------------------------------------------
(* PathCache.Get called by several goroutines.  Load and Store are each one *)
(* step of the sync.Map; the statements between them are the goroutine's    *)
(* own.                                                                     *)

ConcCachePaths == {<<"a">>, <<"a", ".", "b">>}

\* The goroutines between their Load and their Store.
Storing == {t \in Threads : pc[t] = "pcg_miss"}

\* if cached, ok := pc.cache.Load(path); ok { return cached.([]string) }
PathCacheLoad(t, path) ==
    LET cached == CacheLoad(cache, path)
        ok == cached # {}
        id == (CHOOSE e \in cached : TRUE).slice
    IN  /\ pc[t] = "idle"
        /\ ok \/ Len(slices) + Cardinality(Storing) < MaxSlices
        /\ local' = [local EXCEPT ![t] = [Call("PathCache.Get") EXCEPT !.path = path]]
        /\ IF ok
           THEN /\ Goto(t, "ret")
                /\ result' = Returns(result, t, Ok(SliceV(id)))
                /\ firstGot' = IF \E e \in firstGot : e.path = path
                               THEN firstGot
                               ELSE firstGot \cup {[path |-> path, slice |-> id]}
           ELSE /\ Goto(t, "pcg_miss")
                /\ UNCHANGED <<result, firstGot>>
        /\ UNCHANGED <<globalConfigRegistry, onceDone, onceM, configs, loaders, mu,
                       heap, fnVars, cache, slices>>

\* parts := strings.Split(path, "."); pc.cache.Store(path, parts); return parts
PathCacheStore(t) ==
    LET path == local[t].path
        id == Len(slices) + 1
    IN  /\ pc[t] = "pcg_miss"
        /\ slices' = Append(slices, Split(path, "."))
        /\ cache' = CacheStore(cache, path, id)
        /\ result' = Returns(result, t, Ok(SliceV(id)))
        /\ firstGot' = IF \E e \in firstGot : e.path = path
                       THEN firstGot
                       ELSE firstGot \cup {[path |-> path, slice |-> id]}
        /\ Goto(t, "ret")
        /\ UNCHANGED <<globalConfigRegistry, onceDone, onceM, configs, loaders, mu,
                       heap, local, fnVars>>

\* The caller is done with the slice.
PathCacheReturn(t) ==
    /\ pc[t] = "ret"
    /\ Goto(t, "idle")
    /\ local' = [local EXCEPT ![t] = Loc0]
    /\ result' = Returns(result, t, NoRes)
    /\ UNCHANGED <<globalConfigRegistry, onceDone, onceM, configs, loaders, mu,
                   heap, fnVars, cacheVars>>

NextCacheConc ==
    \E t \in Threads :
       \/ \E path \in ConcCachePaths : PathCacheLoad(t, path)
       \/ PathCacheStore(t)
       \/ PathCacheReturn(t)

SpecCacheConc == Init /\ [][NextCacheConc]_vars

-----------------------------------------------------------------------------
(* ConfigSchema.Validate (src/schema.go) on a caller's tree, its root in    *)
(* cell 1.  The fields are visited in the order Go ranges over the map.     *)

\* setValue as a whole: the loop, then the final assignment.
RECURSIVE setValueFrom(_, _, _, _, _)
setValueFrom(h, current, parts, i, value) ==
    IF i < Len(parts)
    THEN LET step == setValueDescend(h, current, parts[i])
         IN  setValueFrom(step.h, step.cur, parts, i + 1, value)
    ELSE setValueAssign(h, current, parts[i], value)

setValue(h, config, parts, value) == setValueFrom(h, config, parts, 1, value)

\* The trees setValue is given, the root in cell 1: a holds nothing, nil,
\* an int or the map in cell 2; b may hold an int.
SetValueTrees ==
    {[NoHeap EXCEPT ![1] = [a |-> va, b |-> vb]] :
        va \in {NoneV, NilV, IntV(1)}, vb \in {NoneV, IntV(3)}}
    \cup {[NoHeap EXCEPT ![1] = [a |-> MapV(2), b |-> vb], ![2] = cell] :
              vb \in {NoneV, IntV(3)}, cell \in [Keys -> {NoneV, IntV(1)}]}

InitSetValue ==
    /\ globalConfigRegistry = 0
    /\ onceDone = FALSE
    /\ configs = NoConfigs
    /\ loaders = NoLoaders
    /\ heap \in SetValueTrees
    /\ NoGoroutines
    /\ NoCall
    /\ \E parts \in TraverseParts, value \in {IntV(2), NilV} :
          args = [config |-> 1, parts |-> parts, value |-> value, before |-> heap]
    /\ NoCache

\* A call of setValue(config, parts, value); it returns nil.
CallSetValue ==
    /\ fn = ""
    /\ FreeCount(heap) >= Len(args.parts) - 1
    /\ fn' = "setValue"
    /\ heap' = setValue(heap, args.config, args.parts, args.value)
    /\ out' = Ok(NilV)
    /\ UNCHANGED <<globalConfigRegistry, onceDone, onceM, configs, loaders, mu,
                   pc, local, result, args, cacheVars>>

NextSetValue == CallSetValue

SpecSetValue == InitSetValue /\ [][NextSetValue]_vars

\* reflect.TypeOf(value).Kind().
KindOf(value) ==
    CASE value.t = "int" -> "int"
      [] value.t = "map" -> "map"
      [] value.t = "string" -> "string"
      [] value.t = "bool" -> "bool"
      [] value.t = "float64" -> "float64"
      [] OTHER -> "slice"

\* A field's Validator: none, or the range check of the tests, which
\* rejects an int of 2 or more and accepts everything else.
Validators == {"none", "small"}

ValidatorRejects(validator, value) ==
    validator = "small" /\ value.t = "int" /\ value.v >= 2

\* A validateValue that runs the Validator before it compares the kinds.
validateValue_predicateFirst(value, field) ==
    IF value = NilV
    THEN [err |-> IF field.Required THEN "schema-required-nil" ELSE "none",
          called |-> FALSE]
    ELSE IF field.Validator # "none" /\ ValidatorRejects(field.Validator, value)
         THEN [err |-> "schema-predicate-failed", called |-> TRUE]
         ELSE [err |-> IF KindOf(value) # field.Type
                       THEN "schema-type-mismatch"
                       ELSE "none",
               called |-> field.Validator # "none"]

\* validateValue: its error, and whether it called the Validator.
validateValue(value, field) ==
    IF value = NilV
    THEN [err |-> IF field.Required THEN "schema-required-nil" ELSE "none",
          called |-> FALSE]
    ELSE IF KindOf(value) # field.Type
         THEN [err |-> "schema-type-mismatch", called |-> FALSE]
         ELSE IF field.Validator # "none"
              THEN [err |-> IF ValidatorRejects(field.Validator, value)
                            THEN "schema-predicate-failed"
                            ELSE "none",
                    called |-> TRUE]
              ELSE [err |-> "none", called |-> FALSE]

\* A Validate that looks at the default before the required flag.
ValidateMissing_defaultFirst(h, config, field) ==
    IF field.Default # NilV
    THEN [err |-> "none", h |-> setValue(h, config, field.path, field.Default)]
    ELSE [err |-> IF field.Required THEN "schema-required-missing" ELSE "none",
          h |-> h]

\* Validate's branch for a field whose traversal failed.
ValidateMissing(h, config, field) ==
    IF field.Required
    THEN [err |-> "schema-required-missing", h |-> h]
    ELSE IF field.Default # NilV
         THEN [err |-> "none", h |-> setValue(h, config, field.path, field.Default)]
         ELSE [err |-> "none", h |-> h]

\* The fields a schema can hold: AddField(path, field), path already split.
SchemaPaths == {<<"a">>, <<"a", "b">>, <<"b", "a">>}

SchemaFields ==
    [path : SchemaPaths,
     Type : {"int", "map"},
     Required : BOOLEAN,
     Default : {NilV, IntV(5)},
     Validator : Validators]

\* s.Fields after one or two AddField calls with different paths.
Schemas ==
    {{f} : f \in SchemaFields}
    \cup {{f, g} : f \in {x \in SchemaFields : x.path # <<"a", "b">>},
                   g \in {x \in SchemaFields : x.path = <<"a", "b">>}}

\* The trees Validate is given: a holds nothing, nil, an int or a map.
SchemaTrees ==
    {[NoHeap EXCEPT ![1] = [EmptyMap EXCEPT !["a"] = value]] :
        value \in {NoneV, NilV, IntV(1), IntV(3)}}
    \cup {[NoHeap EXCEPT ![1] = [EmptyMap EXCEPT !["a"] = MapV(2)],
                         ![2] = [EmptyMap EXCEPT !["b"] = value]] :
              value \in {NoneV, NilV, IntV(1), IntV(3)}}
    \cup {[NoHeap EXCEPT ![1] = [EmptyMap EXCEPT !["a"] = MapV(2)],
                         ![2] = [EmptyMap EXCEPT !["b"] = MapV(3)],
                         ![3] = EmptyMap]}

NoVisit == [path |-> << >>, calls |-> {}]

InitSchema ==
    /\ globalConfigRegistry = 0
    /\ onceDone = FALSE
    /\ configs = NoConfigs
    /\ loaders = NoLoaders
    /\ heap \in SchemaTrees
    /\ NoGoroutines
    /\ NoCall
    /\ \E fields \in Schemas :
          args = [config |-> 1, fields |-> fields, pending |-> {}, visit |-> NoVisit]
    /\ NoCache

\* s.Validate(config) is called: the range over s.Fields begins.
ValidateCall ==
    /\ fn = ""
    /\ fn' = "Validate"
    /\ args' = [args EXCEPT !.pending = args.fields]
    /\ UNCHANGED <<globalConfigRegistry, onceDone, onceM, configs, loaders, mu,
                   heap, pc, local, result, out, cacheVars>>

\* One iteration of the range, for any field not yet visited; visit keeps
\* the field's path and the values its Validator was called with.
ValidateField ==
    /\ fn = "Validate"
    /\ \E field \in args.pending :
          LET got == traverse(heap, args.config, field.path)
              missing == ValidateMissing(heap, args.config, field)
              checked == validateValue(got.val, field)
              err == IF got.err # "none" THEN missing.err ELSE checked.err
          IN  /\ FreeCount(heap) >= Len(field.path) - 1
              /\ heap' = IF got.err # "none" THEN missing.h ELSE heap
              /\ args' = [args EXCEPT
                             !.pending = @ \ {field},
                             !.visit = [path |-> field.path,
                                        calls |-> IF got.err = "none" /\ checked.called
                                                  THEN {got.val}
                                                  ELSE {}]]
              /\ IF err # "none"
                 THEN fn' = "Validate.ret" /\ out' = Res(err, NilV, field.path)
                 ELSE fn' = fn /\ out' = out
    /\ UNCHANGED <<globalConfigRegistry, onceDone, onceM, configs, loaders, mu,
                   pc, local, result, cacheVars>>

\* The range has ended: return nil.
ValidateReturn ==
    /\ fn = "Validate"
    /\ args.pending = {}
    /\ fn' = "Validate.ret"
    /\ out' = Ok(NilV)
    /\ UNCHANGED <<globalConfigRegistry, onceDone, onceM, configs, loaders, mu,
                   heap, pc, local, result, args, cacheVars>>

NextSchema ==
    \/ ValidateCall
    \/ ValidateField
    \/ ValidateReturn

SpecSchema == InitSchema /\ [][NextSchema]_vars

-----------------------------------------------------------------------------
(* Validate as a whole, its range taking the fields in a given order: the   *)
(* same schema and tree validated under two orders.                         *)

\* The orders "for path, field := range s.Fields" can take.
Orders(fields) ==
    {o \in [1 .. Cardinality(fields) -> fields] :
        \A i, j \in DOMAIN o : o[i] = o[j] => i = j}

\* Validate from the i-th field of order on: its error and the path the
\* error names, and the tree as the call leaves it.
RECURSIVE ValidateIn(_, _, _, _)
ValidateIn(h, config, order, i) ==
    IF i > Len(order)
    THEN [err |-> "none", pfx |-> << >>, tree |-> DeepVal(h, MapV(config), << >>)]
    ELSE LET field == order[i]
             got == traverse(h, config, field.path)
             after == IF got.err # "none"
                      THEN ValidateMissing(h, config, field)
                      ELSE [err |-> validateValue(got.val, field).err, h |-> h]
         IN  IF after.err # "none"
             THEN [err |-> after.err, pfx |-> field.path,
                   tree |-> DeepVal(after.h, MapV(config), << >>)]
             ELSE ValidateIn(after.h, config, order, i + 1)

RECURSIVE MapsNeeded(_, _)
MapsNeeded(order, i) ==
    IF i > Len(order)
    THEN 0
    ELSE Len(order[i].path) - 1 + MapsNeeded(order, i + 1)

\* s.Validate(config) under one order, and again, on a tree equal to the
\* first, under another.
CallValidateOrders ==
    /\ fn = ""
    /\ \E first \in Orders(args.fields), second \in Orders(args.fields) :
          /\ FreeCount(heap) >= MapsNeeded(first, 1)
          /\ fn' = "Validate.orders"
          /\ args' = [args EXCEPT !.pending = {first, second}]
          /\ out' = [first |-> ValidateIn(heap, args.config, first, 1),
                     second |-> ValidateIn(heap, args.config, second, 1)]
    /\ UNCHANGED <<globalConfigRegistry, onceDone, onceM, configs, loaders, mu,
                   heap, pc, local, result, cacheVars>>

NextOrders == CallValidateOrders

SpecOrders == InitSchema /\ [][NextOrders]_vars

-----------------------------------------------------------------------------
(* unmarshalInto on its own: a map, its root in cell 1, projected into a    *)
(* struct.  A struct type is the sequence of its fields; a field has its    *)
(* Name, its config tag ("" when it has none), its required tag, its kind,  *)
(* and for a nested struct the type of that struct.                         *)

UpperChars == <<"A", "B">>
LowerChars == <<"a", "b">>

\* strings.ToLower of a one-letter field name.
ToLower(name) ==
    IF \E i \in 1 .. Len(UpperChars) : UpperChars[i] = name
    THEN LowerChars[CHOOSE i \in 1 .. Len(UpperChars) : UpperChars[i] = name]
    ELSE name

\* config[key]: the maps hold no key outside Keys.
MapIndex(h, config, key) ==
    IF config \in Addrs /\ key \in Keys THEN h[config][key] ELSE NoneV

\* toInt64.
toInt64(value) ==
    CASE value.t = "int" -> [ok |-> TRUE, n |-> value.v]
      [] value.t = "float64" -> [ok |-> TRUE, n |-> Truncate(value.v)]
      [] value.t = "string" -> Atoi(Strings[value.v])
      [] OTHER -> [ok |-> FALSE, n |-> 0]

\* What a projection returns: its error, the key the error message names,
\* the index of the field it stopped at, the error it wraps if any, and the
\* fields it has set, each by its path of Names.
Projected(err, key, at, cause, set) ==
    [err |-> err, key |-> key, at |-> at, cause |-> cause, set |-> set]

Under(name, set) == {<< <<name>> \o e[1], e[2] >> : e \in set}

\* A projection that splits a dotted key and walks the tree by it.
ConfigKeyValue_split(h, config, key) ==
    LET parts == Split(key, ".")
        path == [i \in 1 .. Len(parts) |->
                    IF parts[i] = << >> THEN "" ELSE parts[i][1]]
    IN  IF \A i \in 1 .. Len(path) : path[i] \in Keys
        THEN LET got == traverse(h, config, path)
             IN  IF got.err = "none" THEN got.val ELSE NoneV
        ELSE NoneV

\* value, ok := config[key], the key being the characters of the tag or
\* of the lowercased name: one map index, whatever the key holds.
ConfigKeyValue(h, config, key) ==
    IF Len(key) = 1 THEN MapIndex(h, config, key[1]) ELSE NoneV

RECURSIVE unmarshalFields(_, _, _, _, _)
RECURSIVE setField(_, _, _)
\* setField for an int field and for a nested struct field.
setField(h, field, value) ==
    IF field.kind = "int"
    THEN IF toInt64(value).ok
         THEN Projected("none", << >>, 0, "none",
                        {<< << >>, IntV(toInt64(value).n) >>})
         ELSE Projected("type-mismatch", << >>, 0, "none", {})
    ELSE IF value.t = "map"
         THEN unmarshalFields(h, value.v, field.inner, 1, {})
         ELSE Projected("struct-from-non-map", << >>, 0, "none", {})

\* unmarshalInto's loop from field i on; set is what the fields before
\* have received.
unmarshalFields(h, config, typ, i, set) ==
    IF i > Len(typ)
    THEN Projected("none", << >>, 0, "none", set)
    ELSE LET field == typ[i]
             key == IF field.tag = << >> THEN <<ToLower(field.Name)>> ELSE field.tag
             value == ConfigKeyValue(h, config, key)
             inner == setField(h, field, value)
         IN  IF key = <<"-">>
             THEN unmarshalFields(h, config, typ, i + 1, set)
             ELSE IF value.t = "none"
                  THEN IF field.required
                       THEN Projected("unmarshal-required-missing", key, i, "none", set)
                       ELSE unmarshalFields(h, config, typ, i + 1, set)
                  ELSE IF inner.err # "none"
                       THEN Projected("field-error", key, i, inner.err,
                                      set \cup Under(field.Name, inner.set))
                       ELSE unmarshalFields(h, config, typ, i + 1,
                                            set \cup Under(field.Name, inner.set))

\* The config tags the struct fields carry: none, "-", a key, a dotted key.
ConfigTags == {<< >>, <<"-">>, <<"b">>, <<"a", ".", "b">>}

\* The type of a nested struct: one int field B.
InnerTypes ==
    {<<f>> : f \in [Name : {"B"}, tag : {<< >>, <<"-">>}, required : BOOLEAN,
                     kind : {"int"}, inner : {<< >>}]}

\* A field Name of the target: an int, or a nested struct.
FieldsNamed(name) ==
    [Name : {name}, tag : ConfigTags, required : BOOLEAN, kind : {"int"},
     inner : {<< >>}]
    \cup [Name : {name}, tag : ConfigTags, required : BOOLEAN, kind : {"struct"},
          inner : InnerTypes]

\* The target's type: field A, or fields A and B.
StructTypes ==
    {<<f>> : f \in FieldsNamed("A")}
    \cup {<<f, g>> : f \in FieldsNamed("A"), g \in FieldsNamed("B")}

\* The maps projected: a holds nothing, nil, an int or a map; b may hold an
\* int.
UnmarshalTrees ==
    {[NoHeap EXCEPT ![1] = [a |-> va, b |-> vb]] :
        va \in {NoneV, NilV, IntV(1)}, vb \in {NoneV, IntV(2)}}
    \cup {[NoHeap EXCEPT ![1] = [a |-> MapV(2), b |-> vb],
                         ![2] = [EmptyMap EXCEPT !["b"] = value]] :
              vb \in {NoneV, IntV(2)}, value \in {NoneV, IntV(3)}}

NoProjection == Projected("none", << >>, 0, "none", {})

InitUnmarshal ==
    /\ globalConfigRegistry = 0
    /\ onceDone = FALSE
    /\ configs = NoConfigs
    /\ loaders = NoLoaders
    /\ heap \in UnmarshalTrees
    /\ NoGoroutines
    /\ fn = ""
    /\ out = NoProjection
    /\ args \in [config : {1}, typ : StructTypes]
    /\ NoCache

\* A call of unmarshalInto(config, val) on a zero struct.
CallUnmarshalInto ==
    /\ fn = ""
    /\ fn' = "unmarshalInto"
    /\ out' = unmarshalFields(heap, args.config, args.typ, 1, {})
    /\ UNCHANGED <<globalConfigRegistry, onceDone, onceM, configs, loaders, mu,
                   heap, pc, local, result, args, cacheVars>>

NextUnmarshal == CallUnmarshalInto

SpecUnmarshal == InitUnmarshal /\ [][NextUnmarshal]_vars

-----------------------------------------------------------------------------
(* A []string field: setField hands the value to toStringSlice.  The same   *)
(* stored value is read through GetStringArray.  A result is its error and  *)
(* the strings of the slice.                                                *)

\* strconv.Itoa, as fmt.Sprintf("%v", n) prints an int.
RECURSIVE Itoa(_)
Itoa(n) ==
    IF n < 0
    THEN <<"-">> \o Itoa(0 - n)
    ELSE IF n < 10
         THEN <<DigitChars[n + 1]>>
         ELSE Itoa(n \div 10) \o <<DigitChars[(n % 10) + 1]>>

\* toString: a string as it is, any other value as fmt.Sprintf("%v", v)
\* prints it; it returns no error.
toString(value) ==
    CASE value.t = "string" -> Strings[value.v]
      [] value.t = "int" -> Itoa(value.v)
      [] value.t = "bool" ->
           IF value.v = 1 THEN <<"t", "r", "u", "e">> ELSE <<"f", "a", "l", "s", "e">>
      [] OTHER -> <<"<", "n", "i", "l", ">">>

SliceResult(err, strs) == [err |-> err, strs |-> strs]

\* toStringSlice.
toStringSlice(value) ==
    CASE value.t = "[]string" -> SliceResult("none", StringSlices[value.v])
      [] value.t = "string" ->
           IF Strings[value.v] = << >>
           THEN SliceResult("none", << >>)
           ELSE SliceResult("none", Split(Strings[value.v], ","))
      [] value.t = "[]interface{}" ->
           LET v == Lists[value.v]
           IN  SliceResult("none", [i \in 1 .. Len(v) |-> toString(v[i])])
      [] OTHER -> SliceResult("type-mismatch", << >>)

\* What GetStringArray returned, in the same form.
GotSlice(res) ==
    SliceResult(res.err, IF res.err = "none" THEN StringSlices[res.val.v] ELSE << >>)

Uncalled == SliceResult("uncalled", << >>)

\* Section "s" is {a: value}; nothing has been called.
InitSlices ==
    /\ globalConfigRegistry = 1
    /\ onceDone = TRUE
    /\ loaders = NoLoaders
    /\ configs = [NoConfigs EXCEPT !["s"] = 1]
    /\ \E value \in GetterValues :
          heap = [NoHeap EXCEPT
                     ![1] = [EmptyMap EXCEPT !["a"] = value],
                     ![2] = IF value.t = "map" THEN EmptyMap ELSE FreeCell]
    /\ NoGoroutines
    /\ fn = ""
    /\ out = [got |-> Uncalled, projected |-> Uncalled]
    /\ args = [path |-> <<"s", "a">>, defaultValue |-> << >>]
    /\ NoCache

\* r.GetStringArray("s.a").
CallArrayGetter ==
    /\ out.got = Uncalled
    /\ fn' = "GetStringArray"
    /\ out' = [out EXCEPT
                  !.got = GotSlice(GetStringArray(configs, heap, args.path,
                                                  args.defaultValue))]
    /\ UNCHANGED <<globalConfigRegistry, onceDone, onceM, configs, loaders, mu,
                   heap, pc, local, result, args, cacheVars>>

\* r.Unmarshal("s", &v), v a struct with the one field A []string:
\* setField(fieldVal, config["a"]).
CallSetFieldSlice ==
    /\ out.projected = Uncalled
    /\ fn' = "setField"
    /\ out' = [out EXCEPT
                  !.projected = toStringSlice(MapIndex(heap, configs["s"], "a"))]
    /\ UNCHANGED <<globalConfigRegistry, onceDone, onceM, configs, loaders, mu,
                   heap, pc, local, result, args, cacheVars>>

NextSlices ==
    \/ CallArrayGetter
    \/ CallSetFieldSlice

SpecSlices == InitSlices /\ [][NextSlices]_vars

-----------------------------------------------------------------------------
(* Properties.                                                              *)

\* Where a goroutine is inside a critical section of r.mu.
WritePcs == {"reg_locked", "reg_call", "ref_loop", "set_locked", "set_walk"}
ReadPcs == {"get_locked", "unm_locked", "ukey_locked"}

Writers == {t \in Threads : pc[t] \in WritePcs}
Readers == {t \in Threads : pc[t] \in ReadPcs}

\* Goroutine t's call returns in this step.
Completes(t, op) ==
    /\ pc[t] # "ret"
    /\ pc'[t] = "ret"
    /\ local'[t].op = op

GetNow(path) == View(heap, lookup(configs, heap, path))

IsTree(view) == view.err = "none" /\ << << >>, "map", 0>> \in view.val

\* C1: for every registered section s, every path s.k1...kn (n >= 1) and
\* every value v, Set(p, v) returns no error and a Get(p) that follows it,
\* with no mutation in between, returns v.
C1_SetGetRoundTrip ==
    [][\A t \in Threads :
          (/\ Completes(t, "Set")
           /\ Len(local[t].path) >= 2
           /\ loaders[local[t].path[1]] # NoLoader)
          => /\ result'[t].err = "none"
             /\ GetNow(local[t].path)' = View(heap', Ok(local[t].value))]_vars

\* Whenever no Register or Refresh is in progress the section names are the
\* loader names.
C2_NamesAgree ==
    (\A t \in Threads : pc[t] \notin {"reg_locked", "reg_call", "ref_loop"})
    => \A n \in Names : (configs[n] # NoEntry) <=> (loaders[n] # NoLoader)

\* A Get whose first segment has a loader never fails with "config section
\* not found".
C2_GetFindsSection ==
    \A t \in Threads :
        (Completes(t, "Get") /\ loaders[local[t].path[1]] # NoLoader)
        => result'[t].err # "section-missing"

\* C2: the section names are the loader names outside Register and Refresh,
\* and Get never reports a registered section as not found.
C2_SectionsMatchLoaders == []C2_NamesAgree /\ [][C2_GetFindsSection]_vars

C2_Witness ==
    \E t \in Threads :
        /\ pc[t] = "ret"
        /\ local[t].op = "Get"
        /\ loaders[local[t].path[1]] \in {"boom", "nilmap"}
        /\ configs[local[t].path[1]] # NoEntry
        /\ result[t].err # "section-missing"

\* C3: a Register whose loader panics returns normally, keeps the loader,
\* leaves the section an empty tree whatever it held, and releases the
\* write lock; Get(name) then returns the empty tree.
C3_RegisterPanicIsolated ==
    [][\A t \in Threads :
          (Completes(t, "Register") /\ local'[t].outcome = "panic")
          => /\ result'[t].err = "none"
             /\ loaders'[local[t].name] = local[t].loader
             /\ CanLock(mu')
             /\ GetNow(<<local[t].name>>)' = EmptyView]_vars

C3_Witness ==
    \E t \in Threads :
        /\ pc[t] = "ret"
        /\ local[t].op = "Register"
        /\ local[t].outcome = "panic"
        /\ IsTree(local[t].before[<<local[t].name>>])
        /\ local[t].before[<<local[t].name>>] # EmptyView
        /\ GetNow(<<local[t].name>>) = EmptyView

\* C4: when Refresh has run every loader, a section whose loader panicked
\* is as it was before the Refresh, every section whose loader returned
\* holds the returned tree, and Refresh returns normally.
C4_RefreshPanicIsolated ==
    \A t \in Threads :
        /\ (pc[t] = "ref_loop" /\ local[t].pending = {})
           => \A n \in Registered(loaders) :
                 /\ local[t].ran[n] # ""
                 /\ local[t].ran[n] = "panic"
                    => \A p \in {q \in Paths : q[1] = n} :
                          GetNow(p) = local[t].before[p]
                 /\ local[t].ran[n] # "panic"
                    => GetNow(<<n>>) = OutcomeView(n, local[t].ran[n])
        /\ (pc[t] = "ret" /\ local[t].op = "Refresh") => result[t].err = "none"

C4_Witness ==
    \E t \in Threads :
        /\ pc[t] = "ref_loop"
        /\ local[t].pending = {}
        /\ \E n \in Names, m \in Names :
              /\ local[t].ran[n] = "panic"
              /\ IsTree(local[t].before[<<n>>])
              /\ local[t].before[<<n>>] # EmptyView
              /\ local[t].ran[m] \notin {"panic", ""}
              /\ local[t].before[<<m>>] # GetNow(<<m>>)

\* C5: what a reader obtained through Get shows either the tree before a
\* concurrent mutation or the tree after it: its content changes only in
\* the step that completes the Set, Register or Refresh.
C5_NoTornRead ==
    [][\A r \in Threads :
          (/\ pc[r] = "ret"
           /\ pc'[r] = "ret"
           /\ local[r].op = "Get"
           /\ View(heap', result'[r]) # View(heap, result[r]))
          => \E w \in Threads \ {r} : pc[w] \in WritePcs /\ pc'[w] = "ret"]_vars

\* At most one mutator is in its critical section, and none is while a
\* reader holds the read lock.
C6_Exclusion ==
    /\ Cardinality(Writers) <= 1
    /\ Writers # {} => Readers = {}
    /\ \A t \in Writers : mu.w = t
    /\ \A t \in Readers : t \in mu.r

\* No step taken while a reader holds the read lock changes the loaders or
\* what Get returns for any path.
C6_ReadStable ==
    (\E t \in Threads : pc[t] \in ReadPcs /\ pc'[t] \in ReadPcs)
    => /\ loaders' = loaders
       /\ GetResults(configs', heap') = GetResults(configs, heap)

\* C6: at most one of Register, Set, Refresh is in its critical section,
\* none is while a reader holds the read lock (several readers may), and
\* sections and loaders do not change while a read is in progress.
C6_NoMutationDuringRead == []C6_Exclusion /\ [][C6_ReadStable]_vars

C6_Witness == Cardinality(Readers) = 2

\* C7: a read operation holds the read lock for as long as it reads the
\* registry's maps, UnmarshalKey's projection included, so that no Set,
\* Register or Refresh is in its critical section meanwhile.
C7_ReadsHoldPermit ==
    \A t \in Threads :
        pc[t] \in ReadPcs \cup {"ukey_project"} => (t \in mu.r /\ Writers = {})

C9_InitRetries ==
    [][\A t \in Threads :
          (/\ pc[t] = "idle"
           /\ pc'[t] # "idle"
           /\ local'[t].op = "GetConfigRegistry"
           /\ globalConfigRegistry = 0)
          => pc'[t] = "init_run"]_vars

AllConstant == \A n \in Registered(loaders) : IsConstant(loaders[n])

\* C10 as stated: with only constant loaders registered, Get returns the
\* same for every path before and after Refresh, from any state.
C10_RefreshIdempotentAnyState ==
    \A t \in Threads :
        (pc[t] = "ref_loop" /\ local[t].pending = {} /\ AllConstant)
        => GetResults(configs, heap) = local[t].before

\* C10: with only constant loaders registered and every section still what
\* its loader returns, Get returns the same for every path before and
\* after Refresh.
C10_RefreshIdempotent ==
    \A t \in Threads :
        (/\ pc[t] = "ref_loop"
         /\ local[t].pending = {}
         /\ AllConstant
         /\ \A n \in Registered(loaders) :
               \E o \in Outcomes(loaders[n]) :
                  local[t].before[<<n>>] = OutcomeView(n, o))
        => GetResults(configs, heap) = local[t].before

C10_Witness ==
    \E t \in Threads :
        /\ pc[t] = "ref_loop"
        /\ local[t].pending = {}
        /\ AllConstant
        /\ \E n \in Names : local[t].ran[n] = "treeA"
        /\ \A n \in Registered(loaders) :
              \E o \in Outcomes(loaders[n]) :
                 local[t].before[<<n>>] = OutcomeView(n, o)
        /\ GetResults(configs, heap) = local[t].before

\* C11: Get(path) fails section-missing when the first segment has no
\* entry and section-nil when the entry is a nil map (a one-segment path
\* too), returns the section's own map for a one-segment path and the result
\* of traversing the section by the remaining segments otherwise; neither
\* taking the read lock nor the lookup changes sections or loaders.
C11_GetContract ==
    [][\A t \in Threads :
          /\ Completes(t, "Get")
             => LET path == local[t].path
                    config == configs[path[1]]
                    got == View(heap', result'[t])
                IN  /\ config = NoEntry => got.err = "section-missing"
                    /\ config = NilMap => got.err = "section-nil"
                    /\ (config \in Addrs /\ Len(path) = 1)
                       => /\ got.err = "none"
                          /\ result'[t].val = MapV(configs'[path[1]])
                          /\ got.val = DeepVal(heap, MapV(config), << >>)
                    /\ (config \in Addrs /\ Len(path) > 1)
                       => got = View(heap, traverse(heap, config, Tail(path)))
          /\ (local'[t].op = "Get" /\ pc'[t] # pc[t])
             => /\ loaders' = loaders
                /\ \A n \in Names : (configs'[n] = NoEntry) <=> (configs[n] = NoEntry)
                /\ \A n \in Names : (configs'[n] = NilMap) <=> (configs[n] = NilMap)
                /\ GetResults(configs', heap') = GetResults(configs, heap)]_vars

C11_Witness ==
    \E t \in Threads :
        /\ pc[t] = "ret"
        /\ local[t].op = "Get"
        /\ Len(local[t].path) = 1
        /\ configs[local[t].path[1]] = NilMap
        /\ result[t].err = "section-nil"

\* C12: Set fails path-invalid when the path has fewer than two segments,
\* and section-missing when it has two or more and the first has no section
\* entry; from its call to its return sections, loaders and maps are
\* unchanged, so no section is created.
C12_SetRejects ==
    [][\A t \in Threads :
          /\ (/\ Completes(t, "Set")
              /\ (Len(local[t].path) < 2 \/ configs[local[t].path[1]] = NoEntry))
             => /\ result'[t].err = IF Len(local[t].path) < 2
                                    THEN "path-invalid"
                                    ELSE "section-missing"
                /\ configs' = configs
                /\ loaders' = loaders
                /\ heap' = heap
          /\ (pc[t] = "idle" /\ pc'[t] = "set_locked")
             => (configs' = configs /\ loaders' = loaders /\ heap' = heap)]_vars

C12_Witness ==
    \E t \in Threads :
        /\ pc[t] = "ret"
        /\ local[t].op = "Set"
        /\ Len(local[t].path) >= 2
        /\ result[t].err = "section-missing"
        /\ configs[local[t].path[1]] = NoEntry
        /\ \E n \in Names : configs[n] # NoEntry

C12_WitnessShortPath ==
    \E t \in Threads :
        /\ pc[t] = "ret"
        /\ local[t].op = "Set"
        /\ Len(local[t].path) < 2
        /\ configs[local[t].path[1]] = NoEntry
        /\ result[t].err = "path-invalid"

\* The content of the tree traverse was given, and what it holds at a path.
C13_Tree == DeepVal(heap, MapV(args.config), << >>)

C13_Absent(p) == \A e \in C13_Tree : e[1] # p

C13_Below(p) ==
    {<<SubSeq(e[1], Len(p) + 1, Len(e[1])), e[2], e[3]>> :
        e \in {x \in C13_Tree : /\ Len(x[1]) >= Len(p)
                                 /\ SubSeq(x[1], 1, Len(p)) = p}}

\* The intermediate segments that do not hold a map.
C13_Blocked ==
    {i \in 1 .. Len(args.parts) - 1 :
        <<SubSeq(args.parts, 1, i), "map", 0>> \notin C13_Tree}

\* C13: traverse returns the value at the end of segs when every
\* intermediate segment holds a map and the last key exists; it fails
\* key-missing or not-a-map at the first intermediate segment that is absent
\* or holds no map, naming segs[0..i]; it fails key-missing naming the last
\* segment alone when only that one is absent.
C13_TraverseContract ==
    fn = "traverse"
    => LET segs == args.parts
       IN  IF C13_Blocked = {}
           THEN IF C13_Absent(segs)
                THEN out.err = "key-missing" /\ out.pfx = <<segs[Len(segs)]>>
                ELSE /\ out.err = "none"
                     /\ DeepVal(heap, out.val, << >>) = C13_Below(segs)
           ELSE LET i == CHOOSE x \in C13_Blocked : \A y \in C13_Blocked : x <= y
                IN  /\ out.pfx = SubSeq(segs, 1, i)
                    /\ out.err = IF C13_Absent(SubSeq(segs, 1, i))
                                 THEN "key-missing"
                                 ELSE "not-a-map"

C13_Witness ==
    /\ fn = "traverse"
    /\ Len(args.parts) = 3
    /\ out.err = "not-a-map"
    /\ out.pfx = SubSeq(args.parts, 1, 2)

\* What r.Get returns for the path the getter was called with.
C14_Got == lookup(configs, heap, args.path)

\* The kinds each getter converts from, and the strings it parses.
C14_Accepts ==
    [GetString |-> {"string"},
     GetInt |-> {"int", "float64", "string"},
     GetBool |-> {"bool", "string"},
     GetFloat |-> {"float64", "int", "string"},
     GetStringArray |-> {"[]string", "string", "[]interface{}"}]

C14_Parses ==
    [GetString |-> {Strings[i] : i \in 1 .. Len(Strings)},
     GetInt |-> {<<"7">>, <<"-", "2">>},
     GetBool |-> {<<"t", "r", "u", "e">>, <<"T">>},
     GetFloat |-> {<<"7">>, <<"-", "2">>, <<"1", ".", "5">>},
     GetStringArray |-> {Strings[i] : i \in 1 .. Len(Strings)}]

C14_Uncoercible ==
    \/ C14_Got.val.t \notin C14_Accepts[fn]
    \/ C14_Got.val.t = "string" /\ Strings[C14_Got.val.v] \notin C14_Parses[fn]
    \/ C14_Got.val.t = "[]interface{}"
          /\ \E i \in 1 .. Len(Lists[C14_Got.val.v]) :
                Lists[C14_Got.val.v][i].t # "string"

\* C14: a typed getter returns its default with no error when Get fails and
\* a default was passed, Get's own error when none was passed, and a
\* coercion error, never the default, when Get succeeds on a value it cannot
\* coerce.
C14_GetterErrors ==
    fn \in Getters
    => /\ (C14_Got.err # "none" /\ args.defaultValue # << >>)
          => out = Ok(args.defaultValue[1])
       /\ (C14_Got.err # "none" /\ args.defaultValue = << >>)
          => (out.err = C14_Got.err /\ out.pfx = C14_Got.pfx)
       /\ (C14_Got.err = "none" /\ C14_Uncoercible)
          => /\ out.err \in {"type-mismatch", "parse-failed",
                              "array-element-mismatch"}
             /\ \A i \in 1 .. Len(args.defaultValue) :
                   out.val # args.defaultValue[i]
       /\ (C14_Got.err = "none" /\ ~C14_Uncoercible) => out.err = "none"

C14_Witness ==
    /\ fn = "GetInt"
    /\ args.defaultValue # << >>
    /\ C14_Got.err = "none"
    /\ C14_Got.val.t = "bool"
    /\ out.err = "type-mismatch"

\* segs is path split on ".": no segment holds a ".", and the segments
\* joined by "." are the path.
RECURSIVE C15_Join(_)
C15_Join(segs) ==
    IF Len(segs) = 1
    THEN segs[1]
    ELSE segs[1] \o <<".">> \o C15_Join(Tail(segs))

C15_IsSplitOf(segs, path) ==
    /\ Len(segs) >= 1
    /\ \A i \in 1 .. Len(segs) : \A j \in 1 .. Len(segs[i]) : segs[i][j] # "."
    /\ C15_Join(segs) = path

C15_Returned ==
    fn = "PathCache.Get"
    => /\ out.err = "none"
       /\ out.val.v \in 1 .. Len(slices)
       /\ C15_IsSplitOf(slices[out.val.v], args.path)
       /\ \A e \in firstGot : e.path = args.path => out.val.v = e.slice

C15_Entries ==
    \A e \in cache :
        /\ e.slice \in 1 .. Len(slices)
        /\ C15_IsSplitOf(slices[e.slice], e.path)

C15_Kept ==
    /\ \A e \in cache : \E f \in cache' : f.path = e.path
    /\ \A i \in 1 .. Len(slices) : i <= Len(slices') /\ slices'[i] = slices[i]

\* C15: PathCache.Get(p) returns p split on "." with empty segments kept,
\* every call for p returns the slice the first call for p returned, and a
\* cached path stays cached with the content split(p).
C15_PathCacheStable == [](C15_Returned /\ C15_Entries) /\ [][C15_Kept]_vars

C15_Witness ==
    /\ fn = "PathCache.Get"
    /\ args.ok
    /\ args.path = <<"a", ".", ".", "b">>
    /\ Len(slices[out.val.v]) = 3
    /\ Cardinality(cache) >= 2

\* C16: when a Get or a Set returns, the path it was called with is in the
\* path cache, so that the next access to it does not split the string
\* again.
C16_PathsMemoized ==
    [][\A t \in Threads :
          (Completes(t, "Get") \/ Completes(t, "Set"))
          => \E e \in cache' : e.path = PathString(local[t].path)]_vars

\* This step is the iteration of Validate's range that visits field f.
C17_Visits(f) ==
    /\ fn = "Validate"
    /\ f \in args.pending
    /\ f \notin args'.pending

C17_Found(f) == traverse(heap, args.config, f.path)

C17_Tree == DeepVal(heap, MapV(args.config), << >>)

C17_WitnessInjected ==
    /\ fn = "Validate"
    /\ args.visit.path = <<"a", "b">>
    /\ heap[1]["a"].t = "map"
    /\ traverse(heap, 1, <<"a", "b">>) = Ok(IntV(5))
    /\ FreeCount(heap) = MaxHeap - 2
    /\ heap[2]["a"].t = "none"

\* C18: when Validate visits a field whose path resolves to a value, a nil
\* value fails only if the field is required; a non-nil value of another
\* kind fails type-mismatch; a value of the expected kind is handed to the
\* Validator, if any, and fails predicate-failed for that path when the
\* Validator rejects it.  The Validator is called on no nil value and on no
\* value of another kind.
C18_PresentField ==
    [][\A f \in SchemaFields :
          (C17_Visits(f) /\ C17_Found(f).err = "none")
          => LET value == C17_Found(f).val
                 fails(tag) == /\ fn' = "Validate.ret"
                               /\ out'.err = tag
                               /\ out'.pfx = f.path
             IN  /\ heap' = heap
                 /\ IF value = NilV
                    THEN /\ args'.visit.calls = {}
                         /\ IF f.Required THEN fails("schema-required-nil")
                                           ELSE fn' = "Validate"
                    ELSE IF KindOf(value) # f.Type
                         THEN /\ args'.visit.calls = {}
                              /\ fails("schema-type-mismatch")
                         ELSE IF f.Validator = "none"
                              THEN args'.visit.calls = {} /\ fn' = "Validate"
                              ELSE /\ args'.visit.calls = {value}
                                   /\ IF value.t = "int" /\ value.v >= 2
                                      THEN fails("schema-predicate-failed")
                                      ELSE fn' = "Validate"]_vars

C18_Witness ==
    /\ fn = "Validate.ret"
    /\ out.err = "schema-type-mismatch"
    /\ args.visit.calls = {}
    /\ \E f \in args.fields :
          /\ f.path = out.pfx
          /\ f.Validator = "small"
          /\ C17_Found(f) = Ok(IntV(3))

C18_WitnessPredicate ==
    /\ fn = "Validate.ret"
    /\ out.err = "schema-predicate-failed"
    /\ args.visit.calls = {IntV(3)}

\* C19: an Unmarshal or UnmarshalKey whose target is not a non-nil pointer
\* to a struct, and whose section or path resolves, returns the error
\* "unmarshal target must be a non-nil pointer", without a panic, and leaves
\* sections and loaders as they are.
C19_BadTargetRejected ==
    [][\A t \in Threads :
          (/\ Completes(t, "Unmarshal") \/ Completes(t, "UnmarshalKey")
           /\ local[t].tgt # "struct_ptr"
           /\ result'[t].err \notin {"section-missing", "section-nil",
                                      "key-missing", "not-a-map",
                                      "value-not-a-map"})
          => /\ result'[t].err = "unmarshal-target-invalid"
             /\ loaders' = loaders
             /\ GetResults(configs', heap') = GetResults(configs, heap)]_vars

\* The map unmarshalInto was given, by content, and the entry at a path.
C20_Tree == DeepVal(heap, MapV(args.config), << >>)

C20_Entries(p) == {e \in C20_Tree : e[1] = p}

\* The key of a field: its config tag, or its name in lower case.
C20_Key(f) ==
    IF f.tag = << >>
    THEN <<[A |-> "a", B |-> "b"][f.Name]>>
    ELSE f.tag

C20_Reached(i) == out.err = "none" \/ out.at >= i

C20_FailsAt(i) == out.err # "none" /\ out.at = i

C20_Touched(name) == \E e \in out.set : e[1][1] = name

\* What the claim says of a nested struct field f, its key holding a map:
\* the same rules, one level down, for the nested type's field g.
C20_Nested(i, f, g) ==
    LET at == C20_Key(f) \o C20_Key(g)
    IN  IF C20_Key(g) = <<"-">>
        THEN ~C20_FailsAt(i) /\ ~C20_Touched(f.Name)
        ELSE IF C20_Entries(at) = {}
             THEN /\ ~C20_Touched(f.Name)
                  /\ IF g.required
                     THEN /\ C20_FailsAt(i)
                          /\ out.key = C20_Key(f)
                          /\ out.cause = "unmarshal-required-missing"
                     ELSE ~C20_FailsAt(i)
             ELSE \A e \in C20_Entries(at) :
                     e[2] = "int" => <<<<f.Name, g.Name>>, IntV(e[3])>> \in out.set

C21_AtReturn ==
    \A t \in Threads :
        (pc[t] = "ret" /\ local[t].op = "Refresh")
        => \A n \in Names :
              IF loaders[n] = NoLoader
              THEN local[t].calls[n] = 0
              ELSE /\ local[t].calls[n] = 1
                   /\ local[t].by[n] = loaders[n]
                   /\ local[t].ran[n] \in Outcomes(loaders[n])
                   /\ local[t].ran[n] # "panic"
                      => GetNow(<<n>>) = OutcomeView(n, local[t].ran[n])

\* The loader a name has changes only in Register, to the loader Register
\* was called with.
C21_LastRegistered ==
    loaders' # loaders
    => \E t \in Threads :
          /\ pc[t] = "reg_locked"
          /\ loaders' = [loaders EXCEPT ![local[t].name] = local[t].loader]

\* C21: after Refresh returns every section whose loader returned is the
\* tree that loader returned during this Refresh, what Set wrote before
\* being discarded; every registered loader was invoked exactly once, and it
\* is the loader most recently registered under its name.
C21_RefreshReloads == []C21_AtReturn /\ [][C21_LastRegistered]_vars

C21_Witness ==
    \E t \in Threads :
        /\ pc[t] = "ret"
        /\ local[t].op = "Refresh"
        /\ \E n \in Names :
              /\ local[t].ran[n] = "treeA"
              /\ local[t].before[<<n, "a">>] = View(heap, Ok(IntV(2)))
              /\ GetNow(<<n, "a">>) = View(heap, Ok(IntV(1)))
        /\ \E m \in Names : local[t].ran[m] = "panic"

\* C22: a goroutine inside Register or Refresh, about to invoke a loader,
\* can go on: the loader's call comes back, whichever of Get, a typed
\* getter, Set, Register or an env accessor it makes on the registry, and
\* Register or Refresh then stores the tree, releases the write lock and
\* returns.
C22_LoadersComeBack ==
    \A t \in Threads :
        /\ pc[t] = "reg_call" => ENABLED RegisterCall(t)
        /\ pc[t] = "ref_loop" => ENABLED (RefreshLoader(t) \/ RefreshReturn(t))

\* C23: whichever goroutines call PathCache.Get(p), together or one after
\* the other, each is returned the slice the first of them was returned,
\* and that slice is the one the cache keeps for p.
C23_OneSlicePerPath ==
    \A f \in firstGot :
        /\ \A t \in Threads :
              (/\ pc[t] = "ret"
               /\ local[t].op = "PathCache.Get"
               /\ local[t].path = f.path)
              => result[t].val.v = f.slice
        /\ \A e \in cache : e.path = f.path => e.slice = f.slice

\* The map the i-th segment is a key of, once setValue has returned.
RECURSIVE C24_On(_)
C24_On(i) ==
    IF i = 1 THEN args.config ELSE heap[C24_On(i - 1)][args.parts[i - 1]].v

C24_WasFree(a) == IsFree(args.before[a])

\* What a key held before the call; a map made by the call held nothing.
C24_Old(a, k) == IF C24_WasFree(a) THEN NoneV ELSE args.before[a][k]

C24_OnPath(a, k) ==
    \E i \in 1 .. Len(args.parts) : C24_On(i) = a /\ args.parts[i] = k

\* C24: setValue on a non-nil map returns no error; the last segment holds
\* the value; an intermediate segment that held a map still holds that map,
\* and one that was absent or held something else holds a map made by the
\* call; every other key of every map is as it was.
C24_SetValueFrame ==
    fn = "setValue"
    => LET segs == args.parts
           n == Len(segs)
       IN  /\ out.err = "none"
           /\ \A i \in 1 .. n - 1 :
                 LET old == C24_Old(C24_On(i), segs[i])
                     new == heap[C24_On(i)][segs[i]]
                 IN  /\ new.t = "map"
                     /\ new.v \in Addrs
                     /\ IF old.t = "map"
                        THEN new = old
                        ELSE C24_WasFree(new.v)
           /\ heap[C24_On(n)][segs[n]] = args.value
           /\ \A a \in Addrs, k \in Keys :
                 ~C24_OnPath(a, k)
                 => heap[a][k] = IF C24_WasFree(a) /\ ~IsFree(heap[a])
                                 THEN NoneV
                                 ELSE args.before[a][k]

C24_Witness ==
    /\ fn = "setValue"
    /\ Len(args.parts) = 3
    /\ args.before[1][args.parts[1]] = IntV(1)
    /\ args.before[1]["b"] = IntV(3)
    /\ traverse(heap, 1, args.parts) = Ok(args.value)
    /\ heap[1]["b"] = IntV(3)

\* A second case: the path runs through a map that is kept, its other key
\* with it.
C24_WitnessKept ==
    /\ fn = "setValue"
    /\ args.parts = <<"a", "a", "b">>
    /\ args.before[1]["a"] = MapV(2)
    /\ args.before[2] = [a |-> IntV(1), b |-> IntV(1)]
    /\ heap[2]["b"] = IntV(1)
    /\ heap[2]["a"].t = "map"

\* C25: a Set whose section is stored as a nil map returns normally, with
\* an error or with the value stored, and the write lock is free when it
\* has returned.
C25_SetOnNilSection ==
    [][\A t \in Threads :
          (/\ Completes(t, "Set")
           /\ Len(local[t].path) >= 2
           /\ configs[local[t].path[1]] = NilMap)
          => /\ result'[t].err # "panic"
             /\ CanLock(mu')]_vars

\* C26: a GetConfigRegistry call returns a registry and no error, or no
\* registry and an error; never no registry and no error.
C26_RegistryOrError ==
    \A t \in Threads :
        (pc[t] = "ret" /\ local[t].op = "GetConfigRegistry")
        => \/ result[t].err = "none" /\ result[t].val.t = "registry"
           \/ result[t].err # "none" /\ result[t].val = NilV

\* C27: for one schema and one tree, Validate succeeds under every order of
\* the range or fails under every order, and where it succeeds it leaves
\* the same tree.
C27_OrderIndependent ==
    fn = "Validate.orders"
    => /\ (out.first.err = "none") <=> (out.second.err = "none")
       /\ out.first.err = "none" => out.first.tree = out.second.tree

\* What the caller's tree holds: an entry for every key, by its path.
C28_Tree == DeepVal(heap, MapV(args.config), << >>)

\* C28: no step of Validate changes or removes what a key of the caller's
\* tree held before it: whatever is in the tree stays as it is, and only
\* keys that were absent are added.
C28_ValidateOnlyAdds ==
    [][fn = "Validate" => \A e \in C28_Tree : e \in C28_Tree']_vars

\* C29: when the projection returns an error, and Unmarshal or UnmarshalKey
\* with it, no field of the target has been assigned: the target, zero
\* before the call, is zero after it.
C29_ErrorLeavesTarget ==
    (fn = "unmarshalInto" /\ out.err # "none") => out.set = {}

\* C30: a stored value projected into a []string field gives what
\* GetStringArray gives for it: the same strings, or an error where
\* GetStringArray returns one.
C30_SliceFieldAsGetter ==
    (out.got # Uncalled /\ out.projected # Uncalled) => out.projected = out.got

====
